---- MODULE Spec2Model ----
(***************************************************************************)
(* A model of the CFD intent orchestrator (server/app.py): the template    *)
(* merge, the dimension-mode enforcement, the schema validation, the job   *)
(* store and the request handlers intent_fill, intent_fill_fast,           *)
(* intent_save and intent_apply.                                           *)
(*                                                                         *)
(* JSON values are tagged records, so that values of different JSON types  *)
(* can be compared:                                                        *)
(*   null            [t |-> "null"]                                        *)
(*   true / false    [t |-> "bool",  b |-> TRUE]                           *)
(*   an int          [t |-> "int",   n |-> 4]                              *)
(*   a float         [t |-> "float", m |-> 2]   (m in thousandths: 0.002)  *)
(*   a string        [t |-> "str",   s |-> "3D"]                           *)
(*   an array        [t |-> "arr",   a |-> <<...>>]                        *)
(*   an object       [t |-> "obj",   f |-> [key |-> value]]                *)
(* Python's None is JSON null.  Strings are TLA+ strings; their characters *)
(* are read with SubSeq.                                                   *)
(***************************************************************************)
EXTENDS Integers, Sequences, FiniteSets, TLC

VARIABLES
    \* ---- the pure-function specifications (SpecMerge, SpecDim, SpecFun) ----
    phase,        \* "args": arguments chosen, "called": the function returned
    fn,           \* the function that was called ("none" before the call)
    t_in,         \* the template argument
    o_in,         \* the overrides (merge), the intent (enforce), the call (SpecFun)
    mode_in,      \* the raw dimension_mode argument (a string or None)
    out,          \* the value returned / the intent after the in-place call
    heap,         \* the dicts and lists of the process, by address (SpecAlias)
    \* ---- the job bridge (SpecBridge) ----
    JOBS,         \* the job table: JOBS[job_id] is the dict of the job
    worker,       \* worker[job_id]: where the thread of _run_job stands, and its ret
    proc,         \* proc[job_id]: the subprocess of the job
    reply,        \* the last response of the bridge
    \* ---- the request handlers (Spec) ----
    \* h_<name> is the handler's local <name>, kept from one step of the
    \* request to the next
    pc,                  \* where the request in progress stands: "idle",
                         \* "collecting" / "reviewing" / "filling_fast"
                         \* (awaiting the generation call), "done"
    req,                 \* the request body
    h_template_obj,      \* template_obj (intent_fill_fast: prepared_template)
    h_collected,         \* what call_llm_collect_parameters returned
    h_reasoner_raw,      \* what call_reasoner_review returned, or its failure
    h_reviewed_intent,   \* the intent call_reasoner_review was called with
    h_final_intent,      \* final_intent
    h_defaults_intent,   \* defaults_intent (None until set)
    h_defaults_overview, \* defaults_overview (None until set)
    h_schema_initial,    \* schema_initial (NoResult until validated)
    h_review_payload,    \* review_payload
    h_pipeline_status,   \* pipeline_status
    response,            \* the HTTP response of the request
    trail,               \* the stages the request went through, in order
    storage,             \* STORAGE_DIR: [dirs, files, writes]
    nreq                 \* the number of requests received

bridgeVars == <<JOBS, worker, proc, reply>>

funVars == <<phase, fn, t_in, o_in, mode_in, out, heap, bridgeVars>>

pipeVars ==
    <<pc, req, h_template_obj, h_collected, h_reasoner_raw, h_reviewed_intent,
      h_final_intent, h_defaults_intent, h_defaults_overview, h_schema_initial,
      h_review_payload, h_pipeline_status, response, trail, storage, nreq>>

vars == <<funVars, pipeVars>>

----------------------------------------------------------------------------
(* JSON values *)

JNull == [t |-> "null"]
JBool(b) == [t |-> "bool", b |-> b]
JInt(n) == [t |-> "int", n |-> n]
JFloat(m) == [t |-> "float", m |-> m]
JStr(s) == [t |-> "str", s |-> s]
JArr(a) == [t |-> "arr", a |-> a]
JObj(f) == [t |-> "obj", f |-> f]
EmptyObj == JObj(<< >>)

\* The value of an argument or key that is not there at all (Python: the
\* parameter left out, the key absent); never stored inside a JSON value.
Absent == [t |-> "absent"]

IsObj(v) == v.t = "obj"
IsArr(v) == v.t = "arr"
IsStr(v) == v.t = "str"
\* isinstance(v, int): bool is a subclass of int in Python
IsInt(v) == v.t \in {"int", "bool"}
\* isinstance(v, (int, float))
IsNumber(v) == v.t \in {"int", "bool", "float"}
\* the integer a Python int or bool compares as
IntVal(v) == IF v.t = "bool" THEN (IF v.b THEN 1 ELSE 0) ELSE v.n

Keys(o) == DOMAIN o.f
Has(o, k) == k \in DOMAIN o.f
\* dict.get(k): None when the key is absent
Get(o, k) == IF k \in DOMAIN o.f THEN o.f[k] ELSE JNull
\* dict.get(k, default)
GetOr(o, k, d) == IF k \in DOMAIN o.f THEN o.f[k] ELSE d
\* d[k] = v
Put(o, k, v) == JObj([x \in (DOMAIN o.f) \cup {k} |-> IF x = k THEN v ELSE o.f[x]])
\* d.setdefault(k, v): the dict afterwards (the call returns its value at k)
SetDefault(o, k, v) == IF k \in DOMAIN o.f THEN o ELSE Put(o, k, v)

\* Python truthiness of a JSON value: `x or {}` keeps x when this holds
Truthy(v) ==
    CASE v.t = "null" -> FALSE
      [] v.t = "bool" -> v.b
      [] v.t = "int" -> v.n # 0
      [] v.t = "float" -> v.m # 0
      [] v.t = "str" -> v.s # ""
      [] v.t = "arr" -> v.a # << >>
      [] v.t = "obj" -> DOMAIN v.f # {}
      [] OTHER -> FALSE

----------------------------------------------------------------------------
(* The state of the server before any request *)

\* None where a schema result is expected
NoResult == [oid |-> 0, valid |-> TRUE, issues |-> << >>]

\* a review payload without any key
NoReview ==
    [stage |-> Absent, summary |-> Absent, missing |-> Absent,
     defaults_overview |-> Absent, schema_initial |-> Absent,
     schema_final |-> Absent, physics |-> Absent, expert |-> Absent,
     auto_corrections |-> Absent, reasoner_error |-> Absent]

\* an empty storage directory.  dirs: the directories under STORAGE_DIR,
\* files: the documents by their path relative to STORAGE_DIR, writes: how
\* many documents have been written so far
EmptyStorage == [dirs |-> {}, files |-> << >>, writes |-> 0]

\* JOBS = {}: no job, no thread, no request
BridgeIdle ==
    /\ JOBS = << >>
    /\ worker = << >>
    /\ proc = << >>
    /\ reply = Absent

PipeIdle ==
    /\ pc = "idle"
    /\ req = Absent
    /\ h_template_obj = Absent
    /\ h_collected = Absent
    /\ h_reasoner_raw = Absent
    /\ h_reviewed_intent = Absent
    /\ h_final_intent = Absent
    /\ h_defaults_intent = JNull
    /\ h_defaults_overview = JNull
    /\ h_schema_initial = NoResult
    /\ h_review_payload = NoReview
    /\ h_pipeline_status = "ok"
    /\ response = Absent
    /\ trail = << >>
    /\ storage = EmptyStorage
    /\ nreq = 0

----------------------------------------------------------------------------
(* deep_copy_json and merge_with_template *)

\* json.loads(json.dumps(data)): the value is rebuilt node by node
RECURSIVE deep_copy_json(_)
deep_copy_json(data) ==
    CASE data.t = "obj" -> JObj([k \in DOMAIN data.f |-> deep_copy_json(data.f[k])])
      [] data.t = "arr" -> JArr([i \in DOMAIN data.a |-> deep_copy_json(data.a[i])])
      [] OTHER -> data

\* A shallow update in place of the recursive merge: dst.update(src)
merge_rec_shallow(dst, src) ==
    JObj([k \in (DOMAIN dst.f) \cup (DOMAIN src.f) |->
            IF k \in DOMAIN src.f THEN src.f[k] ELSE dst.f[k]])

\* _merge(dst, src): dst after the loop over src.items()
RECURSIVE merge_rec(_, _)
merge_rec(dst, src) ==
    JObj([k \in (DOMAIN dst.f) \cup (DOMAIN src.f) |->
            IF k \in DOMAIN src.f
            THEN IF IsObj(src.f[k]) /\ k \in DOMAIN dst.f /\ IsObj(dst.f[k])
                 THEN merge_rec(dst.f[k], src.f[k])
                 ELSE src.f[k]
            ELSE dst.f[k]])

\* A merge that returns the overrides instead of the merged copy
merge_returns_overrides(template_obj, overrides) ==
    IF ~IsObj(overrides) THEN deep_copy_json(template_obj) ELSE overrides

merge_with_template(template_obj, overrides) ==
    LET base == deep_copy_json(template_obj)
    IN  IF ~IsObj(overrides) THEN base ELSE merge_rec(base, overrides)

----------------------------------------------------------------------------
(* SpecMerge: merge_with_template on every template and override of a      *)
(* bounded universe of JSON documents over two keys, two levels deep.      *)

\* the largest integer leaf of the merge universe
MaxScalar == 1

InitMerge ==
    LET MergeKeys == {"a", "b"}
        MergeLeaves == {JInt(n) : n \in 1..MaxScalar} \cup {JArr(<<JInt(1)>>)}
        ObjectsOver(vals) == {JObj(f) : f \in UNION {[D -> vals] : D \in SUBSET MergeKeys}}
        MergeObj1 == ObjectsOver(MergeLeaves)
        MergeObj2 == ObjectsOver(MergeLeaves \cup MergeObj1)
        MergeTemplates == MergeObj2
        \* overrides: Optional[dict], and whatever a caller passes that is no dict
        MergeOverrides ==
            MergeObj2 \cup {JNull, JInt(1), JArr(<<JInt(1)>>)}
            \cup {JObj([a |-> JArr(<<JInt(2), JInt(1)>>), b |-> JObj([a |-> JInt(1)])]),
                  JObj([a |-> JArr(<< >>)])}
    IN  /\ phase = "args"
        /\ fn = "none"
        /\ t_in \in MergeTemplates
        /\ o_in \in MergeOverrides
        /\ mode_in = Absent
        /\ out = Absent
        /\ heap = << >>
        /\ BridgeIdle
        /\ PipeIdle

CallMerge ==
    /\ phase = "args"
    /\ phase' = "called"
    /\ fn' = "merge_with_template"
    /\ out' = merge_with_template(t_in, o_in)
    /\ UNCHANGED <<t_in, o_in, mode_in, heap>>
    /\ UNCHANGED <<pipeVars, bridgeVars>>

NextMerge == CallMerge

SpecMerge == InitMerge /\ [][NextMerge]_vars

----------------------------------------------------------------------------
(* Strings: str.strip *)

\* the characters str.strip() removes (the ASCII ones the model's inputs use)
Whitespace == {" ", "\t", "\n", "\r"}

\* s.strip(chars)
strip(s, chars) ==
    LET
        \* the positions of x whose character is not in chars
        Kept(x) == {i \in 1..Len(x) : SubSeq(x, i, i) \notin chars}
        \* x with the leading characters that are in chars removed
        lstrip(x) ==
            IF Kept(x) = {} THEN ""
            ELSE SubSeq(x, CHOOSE i \in Kept(x) : \A j \in Kept(x) : i <= j, Len(x))
        \* x with the trailing characters that are in chars removed
        rstrip(x) ==
            IF Kept(x) = {} THEN ""
            ELSE SubSeq(x, 1, CHOOSE i \in Kept(x) : \A j \in Kept(x) : i >= j)
    IN
    rstrip(lstrip(s))

----------------------------------------------------------------------------
(* normalize_dimension_mode, apply_dimension_mode_to_template,             *)
(* enforce_dimension_mode                                                  *)

VALID_DIMENSION_MODES == {"3D", "2D_extruded"}

\* the literal default of thickness_2d_m and height_m: 0.002
DefaultThickness == JFloat(2)
\* the clamp of cells.nz in enforce_dimension_mode: max(1, min(nz, 10))
NzMin == 1
NzMax == 10
\* the clamp and the default of cells.nz in apply_dimension_mode_to_template
TemplateNzMin == 2
TemplateNzDefault == 4

Min2(a, b) == IF a <= b THEN a ELSE b
Max2(a, b) == IF a >= b THEN a ELSE b

\* A normalisation that trusts any non-empty value
normalize_dimension_mode_any(raw) ==
    IF raw = JNull THEN JNull
    ELSE LET value == strip(raw.s, Whitespace)
         IN  IF value # "" THEN JStr(value) ELSE JNull

\* raw: Optional[str].  None, or the stripped value when it is a valid mode.
normalize_dimension_mode(raw) ==
    IF raw = JNull THEN JNull
    ELSE LET value == strip(raw.s, Whitespace)
         IN  IF value \in VALID_DIMENSION_MODES THEN JStr(value) ELSE JNull

\* `(x.get(k) or {})`
GetOrEmpty(o, k) == IF Truthy(Get(o, k)) THEN Get(o, k) ELSE EmptyObj

\* The body of apply_dimension_mode_to_template's try block on the copy
\* `base`, for a valid mode.  Each step that raises (a method of dict called
\* on a value that is no dict) ends the block: the except clause logs, and
\* `base` is returned as the steps before it left it.
apply_mode_steps(base, mode) ==
    LET i1 == SetDefault(base, "meshing", EmptyObj)
        meshing == i1.f["meshing"]
    IN
    IF ~IsObj(meshing) THEN i1                 \* meshing.setdefault raises
    ELSE
    LET m1 == SetDefault(meshing, "blockMesh", EmptyObj)
        block == m1.f["blockMesh"]
        WithBlock(b) == Put(i1, "meshing", Put(m1, "blockMesh", b))
    IN
    IF ~IsObj(block) THEN WithBlock(block)     \* block.setdefault raises
    ELSE
    LET b1 == SetDefault(block, "geometry", EmptyObj)
        geometry == b1.f["geometry"]
    IN
    IF ~IsObj(geometry) THEN WithBlock(b1)     \* geometry[...] = mode raises
    ELSE
    LET g1 == Put(geometry, "dimension_mode", mode)
        b2 == SetDefault(Put(b1, "geometry", g1), "cells", EmptyObj)
        cells == b2.f["cells"]
    IN
    IF mode.s = "2D_extruded"
    THEN
        LET thickness == Get(g1, "thickness_2d_m")
            height == Get(g1, "height_m")
            g2 == IF IsNumber(thickness) THEN g1
                  ELSE Put(g1, "thickness_2d_m",
                           IF IsNumber(height) THEN height ELSE DefaultThickness)
            b3 == Put(b2, "geometry", g2)
        IN
        IF ~IsObj(cells) THEN WithBlock(b3)    \* cells.get raises
        ELSE
        LET nz == Get(cells, "nz")
            c1 == IF IsInt(nz)
                  THEN Put(cells, "nz", JInt(Max2(TemplateNzMin, Min2(IntVal(nz), NzMax))))
                  ELSE Put(cells, "nz", JInt(TemplateNzDefault))
        IN  WithBlock(Put(b3, "cells", c1))
    ELSE
        LET height == Get(g1, "height_m")
            fallback == Get(g1, "thickness_2d_m")
            g2 == IF ~IsNumber(height) /\ IsNumber(fallback)
                  THEN Put(g1, "height_m", fallback)
                  ELSE g1
        IN  WithBlock(Put(b2, "geometry", g2))

\* template_obj: a dict.  Returns the prepared copy.
apply_dimension_mode_to_template(template_obj, dimension_mode) ==
    LET base == deep_copy_json(template_obj)
        mode == normalize_dimension_mode(dimension_mode)
    IN  IF mode = JNull THEN base ELSE apply_mode_steps(base, mode)

\* The body of enforce_dimension_mode's try block for a valid mode: the
\* intent as the in-place steps leave it.  A step that raises ends the block
\* (the except clause logs and the function returns); what the steps before
\* it wrote stays written.
enforce_mode_steps(intent_obj, mode, template_obj) ==
    LET i1 == SetDefault(intent_obj, "meshing", EmptyObj)
        meshing == i1.f["meshing"]
        Broke(i) == [intent |-> i, raised |-> TRUE]    \* left at the except clause
        Done(i) == [intent |-> i, raised |-> FALSE]
    IN
    IF ~IsObj(meshing) THEN Broke(i1)                 \* meshing.setdefault raises
    ELSE
    LET m1 == SetDefault(meshing, "blockMesh", EmptyObj)
        block == m1.f["blockMesh"]
        WithBlock(b) == Put(i1, "meshing", Put(m1, "blockMesh", b))
    IN
    IF ~IsObj(block) THEN Broke(WithBlock(block))     \* block.setdefault raises
    ELSE
    LET b1 == SetDefault(block, "geometry", EmptyObj)
        geometry == b1.f["geometry"]
    IN
    IF ~IsObj(geometry) THEN Broke(WithBlock(b1))     \* geometry[...] = mode raises
    ELSE
    LET g1 == Put(geometry, "dimension_mode", mode)
        b2 == Put(b1, "geometry", g1)
        t_meshing == GetOrEmpty(template_obj, "meshing")
    IN
    IF ~IsObj(t_meshing) THEN Broke(WithBlock(b2))    \* (... or {}).get raises
    ELSE
    LET t_block == GetOr(t_meshing, "blockMesh", EmptyObj)
    IN
    IF ~IsObj(t_block) THEN Broke(WithBlock(b2))      \* .get("geometry", {}) raises
    ELSE
    LET template_geo == GetOr(t_block, "geometry", EmptyObj)
        template_cells == GetOr(t_block, "cells", EmptyObj)
        b3 == SetDefault(b2, "cells", EmptyObj)
        cells == b3.f["cells"]
    IN
    IF mode.s = "2D_extruded"
    THEN
        LET thickness == Get(g1, "thickness_2d_m")
        IN
        IF ~IsNumber(thickness) /\ ~IsObj(template_geo)
        THEN Broke(WithBlock(b3))                     \* template_geo.get raises
        ELSE
        LET t_thickness == Get(template_geo, "thickness_2d_m")
            height == Get(g1, "height_m")
            g2 == IF IsNumber(thickness) THEN g1
                  ELSE Put(g1, "thickness_2d_m",
                           IF IsNumber(t_thickness) THEN t_thickness
                           ELSE IF IsNumber(height) THEN height
                           ELSE DefaultThickness)
            b4 == Put(b3, "geometry", g2)
        IN
        IF ~IsObj(cells) THEN Broke(WithBlock(b4))    \* cells.get raises
        ELSE
        LET nz == Get(cells, "nz")
        IN
        IF IsInt(nz)
        THEN Done(WithBlock(Put(b4, "cells",
                 Put(cells, "nz", JInt(Max2(NzMin, Min2(IntVal(nz), NzMax)))))))
        ELSE
        IF ~IsObj(template_cells) THEN Broke(WithBlock(b4))  \* template_cells.get raises
        ELSE
        LET fallback_nz == Get(template_cells, "nz")
        IN  IF IsInt(fallback_nz)
            THEN Done(WithBlock(Put(b4, "cells", Put(cells, "nz", fallback_nz))))
            ELSE Done(WithBlock(b4))
    ELSE
        LET height == Get(g1, "height_m")
        IN
        IF IsNumber(height) THEN Done(WithBlock(b3))
        ELSE
        IF ~IsObj(template_geo) THEN Broke(WithBlock(b3))    \* template_geo.get raises
        ELSE
        LET t_height == Get(template_geo, "height_m")
            thickness == Get(g1, "thickness_2d_m")
            fallback == IF IsNumber(t_height) THEN t_height
                        ELSE IF IsNumber(thickness) THEN thickness
                        ELSE DefaultThickness
        IN  Done(WithBlock(Put(b3, "geometry", Put(g1, "height_m", fallback))))

\* intent_obj, template_obj: dicts.  Returns intent_obj as the call leaves it
\* (the function mutates it in place and returns None).
enforce_dimension_mode(intent_obj, dimension_mode, template_obj) ==
    LET mode == normalize_dimension_mode(dimension_mode)
    IN  IF mode = JNull THEN intent_obj
        ELSE enforce_mode_steps(intent_obj, mode, template_obj).intent

----------------------------------------------------------------------------
(* SpecDim: enforce_dimension_mode and apply_dimension_mode_to_template on *)
(* a bounded universe of intents, templates and raw modes.                 *)

\* the largest cells.nz of the universe (the clamp's upper limit is 10)
MaxNz == 11

\* an object of the fields of `fields` that are not Absent
MkObj(fields) ==
    JObj([k \in {x \in DOMAIN fields : fields[x] # Absent} |-> fields[k]])

InitDim ==
    LET
        DimGeometries(thicknesses, heights) ==
            {MkObj([thickness_2d_m |-> th, height_m |-> h]) :
                th \in thicknesses, h \in heights}
        DimCells(nzs) == {MkObj([nz |-> n]) : n \in nzs}
        DimDocs(geometries, cellss, broken) ==
            {MkObj([meshing |-> MkObj([blockMesh |-> MkObj([geometry |-> g, cells |-> c])])]) :
                g \in geometries \cup {Absent}, c \in cellss \cup {Absent}}
            \cup {MkObj([meshing |-> MkObj([blockMesh |-> b])]) : b \in broken \cup {Absent}}
            \cup {MkObj([meshing |-> m]) : m \in broken \cup {Absent}}
        \* the intents: thickness and height absent, numeric or of a wrong type;
        \* nz absent, an int inside and outside [1,10], a float, true, a string;
        \* geometry, cells, blockMesh and meshing absent or no object
        DimIntents ==
            DimDocs(
                DimGeometries({Absent, JFloat(1), JStr("thin")}, {Absent, JFloat(3)})
                    \cup {JArr(<< >>)},
                DimCells({Absent, JFloat(4000), JBool(TRUE), JStr("4")}
                            \cup {JInt(n) : n \in 0..MaxNz})
                    \cup {JArr(<< >>)},
                {JNull, JStr("x")})
        \* the templates a profile's template file may hold
        DimTemplates ==
            DimDocs(
                DimGeometries({Absent, JFloat(5)}, {Absent, JFloat(7)}) \cup {JNull},
                DimCells({Absent, JInt(0), JInt(4), JInt(50), JFloat(4000)}) \cup {JNull},
                {JNull, JArr(<<JInt(1)>>)})
        \* dimension_mode: Optional[str]
        RawModes ==
            {JNull} \cup {JStr(m) : m \in {"3D", "2D_extruded", " 3D", "2D_extruded\n",
                                           "", "  ", "2D", "3d", "2D extruded"}}
    IN
    /\ phase = "args"
    /\ fn = "none"
    /\ t_in \in DimTemplates
    /\ o_in \in DimIntents
    /\ mode_in \in RawModes
    /\ out = Absent
    /\ heap = << >>
    /\ BridgeIdle
    /\ PipeIdle

\* enforce_dimension_mode(o_in, mode_in, t_in); out is the intent afterwards
CallEnforce ==
    /\ phase = "args"
    /\ phase' = "called"
    /\ fn' = "enforce_dimension_mode"
    /\ out' = enforce_dimension_mode(o_in, mode_in, t_in)
    /\ UNCHANGED <<t_in, o_in, mode_in, heap>>
    /\ UNCHANGED <<pipeVars, bridgeVars>>

\* apply_dimension_mode_to_template(t_in, mode_in)
CallApply ==
    /\ phase = "args"
    /\ phase' = "called"
    /\ fn' = "apply_dimension_mode_to_template"
    /\ out' = apply_dimension_mode_to_template(t_in, mode_in)
    /\ UNCHANGED <<t_in, o_in, mode_in, heap>>
    /\ UNCHANGED <<pipeVars, bridgeVars>>

NextDim == CallEnforce \/ CallApply

SpecDim == InitDim /\ [][NextDim]_vars

----------------------------------------------------------------------------
(* The profile registry *)

SlugOF == "coolingplate-openfoam-bmesh-v1"
SlugMesh == "coolingplate-mesh-v1"
ProfileOF == "CoolingPlate-OF-Intent@blockMesh_v1.0"
ProfileMesh == "CoolingPlate-Intent@mesh_v1.0"

PROFILE_REGISTRY ==
    (SlugMesh :> [family |-> "fluent", profile |-> ProfileMesh, slug |-> SlugMesh])
    @@ (SlugOF :> [family |-> "openfoam", profile |-> ProfileOF, slug |-> SlugOF])

DEFAULT_PROFILE_SLUG == SlugOF

\* the reverse map, by intent.profile
PROFILE_BY_NAME ==
    [name \in {PROFILE_REGISTRY[g].profile : g \in DOMAIN PROFILE_REGISTRY} |->
        PROFILE_REGISTRY[CHOOSE g \in DOMAIN PROFILE_REGISTRY :
                            PROFILE_REGISTRY[g].profile = name]]

\* "no such entry": what dict.get returns for an unknown slug or name
NoMeta == [family |-> "", profile |-> "", slug |-> ""]

\* PROFILE_REGISTRY.get(slug)
RegistryGet(slug) ==
    IF slug \in DOMAIN PROFILE_REGISTRY THEN PROFILE_REGISTRY[slug] ELSE NoMeta

----------------------------------------------------------------------------
(* Schema validation: schema_validate and format_schema_errors.            *)
(*                                                                         *)
(* The schema files are data outside the source.  The model validates      *)
(* against a schema of the same shape for both profiles, written in the    *)
(* keywords type, enum, minimum, required and properties; it types every   *)
(* field that summarize_intent reads.  A schema node is a record           *)
(*   [type, enum, minimum, required, properties]                           *)
(* with type "any", enum {} and minimum NoMinimum standing for a keyword   *)
(* that is not there; properties is a sequence of [key, schema] in the     *)
(* order of the schema file.                                               *)

NoMinimum == [has |-> FALSE, v |-> 0]
Minimum(n) == [has |-> TRUE, v |-> n]

SNode(type, enum, minimum, required, properties) ==
    [type |-> type, enum |-> enum, minimum |-> minimum,
     required |-> required, properties |-> properties]

SLeaf(type) == SNode(type, {}, NoMinimum, << >>, << >>)
SObject(required, properties) == SNode("object", {}, NoMinimum, required, properties)
SProp(key, schema) == [key |-> key, schema |-> schema]

IntentSchema(profile) ==
    SObject(<<"profile", "materials">>, <<
        SProp("profile", SNode("string", {JStr(profile)}, NoMinimum, << >>, << >>)),
        SProp("materials", SObject(<<"fluid">>, <<
            SProp("fluid", SObject(<< >>, <<SProp("name", SLeaf("string"))>>))>>)),
        SProp("meshing", SObject(<< >>, <<
            SProp("mode", SLeaf("string")),
            SProp("blockMesh", SObject(<< >>, <<
                SProp("geometry", SObject(<< >>, <<
                    SProp("dimension_mode",
                          SNode("string", {JStr("3D"), JStr("2D_extruded")},
                                NoMinimum, << >>, << >>)),
                    SProp("thickness_2d_m", SLeaf("number")),
                    SProp("height_m", SLeaf("number"))>>)),
                SProp("cells", SObject(<< >>, <<
                    SProp("nz", SNode("integer", {}, Minimum(1), << >>, << >>))>>))>>))>>)),
        SProp("job_meta", SLeaf("object"))>>)

\* load_json(meta["schema"])
SchemaOf(meta) == IntentSchema(meta.profile)

\* the JSON Schema type test (a bool is no number; 4.0 is an integer)
IsType(v, type) ==
    CASE type = "any" -> TRUE
      [] type = "object" -> v.t = "obj"
      [] type = "array" -> v.t = "arr"
      [] type = "string" -> v.t = "str"
      [] type = "number" -> v.t \in {"int", "float"}
      [] type = "integer" -> v.t = "int" \/ (v.t = "float" /\ v.m % 1000 = 0)
      [] type = "boolean" -> v.t = "bool"
      [] type = "null" -> v.t = "null"
      [] OTHER -> FALSE

\* a number compared with an integer bound (floats are in thousandths)
NumberBelow(v, bound) ==
    IF v.t = "float" THEN v.m < bound * 1000 ELSE v.n < bound

SchemaError(path, message) == [path |-> path, message |-> message]

\* the concatenation of f[1], ..., f[n], each a sequence
RECURSIVE ConcatAll(_, _)
ConcatAll(f, n) == IF n = 0 THEN << >> ELSE ConcatAll(f, n - 1) \o f[n]

\* validator.iter_errors(instance): the errors in the order the validator
\* yields them (keyword by keyword, properties in schema order); path is the
\* error's instance path, a sequence of keys
RECURSIVE iter_errors(_, _, _)
iter_errors(instance, schema, path) ==
    LET type_errors ==
            IF IsType(instance, schema.type) THEN << >>
            ELSE <<SchemaError(path, "type:" \o schema.type)>>
        enum_errors ==
            IF schema.enum = {} \/ instance \in schema.enum THEN << >>
            ELSE <<SchemaError(path, "enum")>>
        minimum_errors ==
            IF schema.minimum.has /\ instance.t \in {"int", "float"}
                                  /\ NumberBelow(instance, schema.minimum.v)
            THEN <<SchemaError(path, "minimum")>> ELSE << >>
        required_errors ==
            IF ~IsObj(instance) THEN << >>
            ELSE ConcatAll(
                    [i \in DOMAIN schema.required |->
                        IF Has(instance, schema.required[i]) THEN << >>
                        ELSE <<SchemaError(path, "required:" \o schema.required[i])>>],
                    Len(schema.required))
        properties_errors ==
            IF ~IsObj(instance) THEN << >>
            ELSE ConcatAll(
                    [i \in DOMAIN schema.properties |->
                        LET p == schema.properties[i]
                        IN  IF Has(instance, p.key)
                            THEN iter_errors(instance.f[p.key], p.schema, Append(path, p.key))
                            ELSE << >>],
                    Len(schema.properties))
    IN  type_errors \o enum_errors \o minimum_errors \o required_errors \o properties_errors

\* the keys of the model's documents in the order Python compares strings
\* (by code point)
KeyOrder ==
    <<"blockMesh", "cells", "dimension_mode", "fluid", "geometry", "height_m",
      "job_id", "job_meta", "materials", "meshing", "mode", "name", "nz",
      "profile", "thickness_2d_m">>

\* deque < deque: lexicographic, a proper prefix first
RECURSIVE PathLess(_, _)
PathLess(p, q) ==
    LET
        KeyRank(k) == CHOOSE i \in DOMAIN KeyOrder : KeyOrder[i] = k
    IN
    IF q = << >> THEN FALSE
    ELSE IF p = << >> THEN TRUE
    ELSE IF Head(p) = Head(q) THEN PathLess(Tail(p), Tail(q))
    ELSE KeyRank(Head(p)) < KeyRank(Head(q))

\* sorted(errors, key=lambda e: e.path): a stable sort
RECURSIVE SortedByPath(_)
SortedByPath(errors) ==
    LET
        \* e put into the sorted sequence after every element that is not greater
        RECURSIVE InsertByPath(_, _)
        InsertByPath(e, sorted) ==
            IF sorted = << >> THEN <<e>>
            ELSE IF PathLess(e.path, Head(sorted).path) THEN <<e>> \o sorted
            ELSE <<Head(sorted)>> \o InsertByPath(e, Tail(sorted))
    IN
    IF errors = << >> THEN << >>
    ELSE InsertByPath(errors[Len(errors)], SortedByPath(SubSeq(errors, 1, Len(errors) - 1)))

\* The errors in the order the validator yields them
schema_validate_unsorted(instance, schema) == iter_errors(instance, schema, << >>)

schema_validate(instance, schema) == SortedByPath(iter_errors(instance, schema, << >>))

\* "$" followed by ".key" for every part of the path
RECURSIVE FormatPath(_)
FormatPath(path) ==
    IF path = << >> THEN "$"
    ELSE FormatPath(SubSeq(path, 1, Len(path) - 1)) \o "." \o path[Len(path)]

\* A result that reports the instance valid whatever the errors
format_schema_errors_always_valid(errors) ==
    [valid |-> TRUE,
     issues |-> [i \in DOMAIN errors |->
                    [path |-> FormatPath(errors[i].path), message |-> errors[i].message]]]

format_schema_errors(errors) ==
    LET issues == [i \in DOMAIN errors |->
                      [path |-> FormatPath(errors[i].path), message |-> errors[i].message]]
    IN  [valid |-> Len(issues) = 0, issues |-> issues]

----------------------------------------------------------------------------
(* normalize_missing_parameters and build_collection_summary *)

\* str(v) for the values the model's inputs hold in string positions
PyStr(v) ==
    CASE v.t = "str" -> v.s
      [] v.t = "int" -> ToString(v.n)
      [] v.t = "bool" -> (IF v.b THEN "True" ELSE "False")
      [] v.t = "null" -> "None"
      [] OTHER -> "<repr>"

\* str(v or "").strip()
StrOrEmptyStripped(v) == strip(IF Truthy(v) THEN PyStr(v) ELSE "", Whitespace)

normalize_missing_parameters(items) ==
    LET
        \* the label of an entry that has neither label nor group (a two-character
        \* literal in the source)
        DefaultLabel == "param"
        \* the `suggested` dict built from suggested_raw
        NormalizeSuggested(suggested_raw) ==
            IF IsObj(suggested_raw)
            THEN LET text == StrOrEmptyStripped(Get(suggested_raw, "text"))
                     unit == StrOrEmptyStripped(Get(suggested_raw, "unit"))
                     value == Get(suggested_raw, "value")
                     si == Get(suggested_raw, "si")
                 IN  MkObj([text |-> IF text # "" THEN JStr(text) ELSE Absent,
                            value |-> IF IsNumber(value) THEN value ELSE Absent,
                            si |-> IF IsNumber(si) THEN si ELSE Absent,
                            unit |-> IF unit # "" THEN JStr(unit) ELSE Absent])
            ELSE IF IsStr(suggested_raw) /\ strip(suggested_raw.s, Whitespace) # ""
            THEN MkObj([text |-> JStr(strip(suggested_raw.s, Whitespace))])
            ELSE EmptyObj
        \* the record appended for one dict entry
        NormalizeMissingItem(item) ==
            LET label0 == StrOrEmptyStripped(Get(item, "label"))
                group == StrOrEmptyStripped(Get(item, "group"))
                label == IF label0 # "" THEN label0
                         ELSE IF group # "" THEN group ELSE DefaultLabel
                suggested == NormalizeSuggested(Get(item, "suggested"))
            IN  MkObj([label |-> JStr(label),
                       detail |-> JStr(StrOrEmptyStripped(Get(item, "detail"))),
                       path |-> JStr(StrOrEmptyStripped(Get(item, "path"))),
                       suggested |-> IF Truthy(suggested) THEN suggested ELSE Absent])
        \* the loop over a list of entries: an entry that is no dict is skipped
        RECURSIVE NormalizeMissingList(_)
        NormalizeMissingList(a) ==
            IF a = << >> THEN << >>
            ELSE IF ~IsObj(Head(a)) THEN NormalizeMissingList(Tail(a))
            ELSE <<NormalizeMissingItem(Head(a))>> \o NormalizeMissingList(Tail(a))
    IN
    IF ~IsArr(items) THEN << >> ELSE NormalizeMissingList(items.a)

\* at most the first n elements
Take(q, n) == SubSeq(q, 1, Min2(n, Len(q)))

\* the lines of the collection summary, by kind
build_collection_summary(missing, summary_hint) ==
    <<"collect_header">>
    \o (IF strip(summary_hint, Whitespace) # "" THEN <<"collect_hint">> ELSE << >>)
    \o (IF missing # << >>
        THEN <<"collect_missing_count">>
                \o [i \in DOMAIN Take(missing, 4) |-> "collect_missing_item"]
        ELSE <<"collect_complete">>)

----------------------------------------------------------------------------
(* summarize_intent and build_multilayer_summary.  A summary is the        *)
(* sequence of its lines, each named by its kind; Raised stands for the    *)
(* call ending in an exception.                                            *)

Raised == <<"raised">>

\* s.startswith(prefix)
StartsWith(s, prefix) ==
    Len(s) >= Len(prefix) /\ SubSeq(s, 1, Len(prefix)) = prefix

\* summarize_intent reads operating_conditions, materials, thermal_loads,
\* accuracy_pref, deliverables, openfoam and, by profile, meshing or mesh,
\* each as `intent.get(k, {}) or {}` followed by .get: the call raises
\* AttributeError when a value read this way is truthy and no dict.  The
\* model's documents hold profile, materials, meshing and job_meta.
summarize_intent(intent) ==
    LET prof == PyStr(GetOr(intent, "profile", JStr("")))
        meshing == GetOrEmpty(intent, "meshing")
        mesh_raises ==
            /\ StartsWith(prof, "CoolingPlate-OF-Intent")
            /\ \/ ~IsObj(meshing)
               \/ /\ GetOr(meshing, "mode", JStr("")) = JStr("blockMesh")
                  /\ LET bm == GetOrEmpty(meshing, "blockMesh")
                     IN  \/ ~IsObj(bm)
                         \/ ~IsObj(GetOrEmpty(bm, "geometry"))
        mats == GetOrEmpty(intent, "materials")
        mats_raises == ~IsObj(mats) \/ ~IsObj(GetOrEmpty(mats, "fluid"))
    IN  IF mesh_raises \/ mats_raises THEN Raised
        ELSE <<"intent_title">>
                \o (IF StartsWith(prof, "CoolingPlate-OF-Intent")
                       \/ StartsWith(prof, "CoolingPlate-Intent@mesh")
                    THEN <<"intent_mesh">> ELSE << >>)
                \o <<"intent_conditions", "intent_inlet", "intent_outlet",
                     "intent_fluid", "intent_convergence">>
                \o (IF StartsWith(prof, "CoolingPlate-OF-Intent")
                    THEN <<"intent_openfoam">> ELSE << >>)
                \o <<"intent_note">>

\* _join_items(items) is a non-empty text
JoinItemsNonEmpty(items) ==
    /\ IsArr(items)
    /\ \E i \in DOMAIN items.a :
          /\ items.a[i].t \in {"str", "int", "float"}
          /\ strip(PyStr(items.a[i]), Whitespace) # ""

\* a schema result: [oid, valid, issues]; oid names the dict object, which
\* build_multilayer_summary compares by identity (`is not`).
\* the dict `{"valid": True, "issues": []}` that stands in for None
DefaultResult == [oid |-> -1, valid |-> TRUE, issues |-> << >>]

\* A summary that goes on to the intent after the schema-issue report
build_multilayer_summary_with_intent(schema_initial0, schema_final0, review, final_intent, pipeline_status, storage_record) ==
    LET intent_lines == summarize_intent(final_intent)
    IN  IF intent_lines = Raised THEN Raised
        ELSE <<"header", "schema_failed">>
                \o [i \in DOMAIN Take(schema_initial0.issues, 4) |-> "schema_issue"]
                \o <<"schema_fix_hint", "intent_header">> \o intent_lines

\* review: the review payload, a record of JSON values whose fields are
\* Absent when the key is not there.  Returns the lines, or Raised.
build_multilayer_summary(schema_initial0, schema_final0, review, final_intent, pipeline_status, storage_record) ==
    LET schema_initial ==
            IF schema_initial0 = NoResult THEN DefaultResult ELSE schema_initial0
    IN
    IF ~schema_initial.valid
    THEN <<"header", "schema_failed">>
            \o [i \in DOMAIN Take(schema_initial.issues, 4) |-> "schema_issue"]
            \o <<"schema_fix_hint">>
    ELSE
    LET schema_final == IF schema_final0 = NoResult THEN schema_initial ELSE schema_final0
        final_lines ==
            IF schema_final.oid # schema_initial.oid
            THEN IF schema_final.valid THEN <<"final_passed">>
                 ELSE <<"final_failed">>
                        \o [i \in DOMAIN Take(schema_final.issues, 4) |-> "final_issue"]
                        \o <<"final_review_note">>
            ELSE IF pipeline_status = "schema_regression" THEN <<"regression_note">>
            ELSE << >>
        physics_lines ==
            IF IsObj(review.physics) THEN <<"physics">>
            ELSE IF pipeline_status = "reasoner_failed" THEN <<"physics_not_executed">>
            ELSE <<"physics_no_feedback">>
        expert_lines ==
            IF IsObj(review.expert) THEN <<"expert">>
            ELSE IF pipeline_status = "reasoner_failed" THEN <<"expert_not_executed">>
            ELSE << >>
        auto_lines ==
            IF IsObj(review.auto_corrections)
            THEN (IF JoinItemsNonEmpty(Get(review.auto_corrections, "applied"))
                  THEN <<"auto_applied">> ELSE << >>)
                 \o (IF JoinItemsNonEmpty(Get(review.auto_corrections, "rules"))
                     THEN <<"auto_rules">> ELSE << >>)
            ELSE << >>
        storage_lines ==
            IF IsObj(storage_record)
               /\ (StrOrEmptyStripped(Get(storage_record, "filename")) # ""
                   \/ StrOrEmptyStripped(Get(storage_record, "path")) # "")
            THEN <<"saved">> ELSE << >>
        error_lines ==
            IF pipeline_status = "reasoner_failed" /\ Truthy(review.reasoner_error)
            THEN <<"reviewer_hint">> ELSE << >>
        intent_lines == summarize_intent(final_intent)
    IN  IF intent_lines = Raised THEN Raised
        ELSE <<"header", "schema_passed">> \o final_lines \o physics_lines
                \o expert_lines \o auto_lines \o storage_lines \o error_lines
                \o <<"intent_header">> \o intent_lines

----------------------------------------------------------------------------
(* Job ids and the intent store: normalize_job_id and                      *)
(* save_intent_with_job_directory.                                         *)

\* the length an id is truncated to
MaxJobIdLen == 120

\* the characters the class [0-9A-Za-z_-] matches
SafeChars ==
    {"0", "1", "2", "3", "4", "5", "6", "7", "8", "9", "_", "-",
     "a", "b", "c", "d", "e", "f", "g", "h", "i", "j", "k", "l", "m",
     "n", "o", "p", "q", "r", "s", "t", "u", "v", "w", "x", "y", "z",
     "A", "B", "C", "D", "E", "F", "G", "H", "I", "J", "K", "L", "M",
     "N", "O", "P", "Q", "R", "S", "T", "U", "V", "W", "X", "Y", "Z"}

\* re.sub(r"[^0-9A-Za-z_-]", "-", value)
RECURSIVE Sanitize(_)
Sanitize(value) ==
    IF Len(value) = 0 THEN ""
    ELSE IF Len(value) = 1 THEN (IF value \in SafeChars THEN value ELSE "-")
    ELSE LET half == Len(value) \div 2
         IN  Sanitize(SubSeq(value, 1, half)) \o Sanitize(SubSeq(value, half + 1, Len(value)))

\* The whole of s, however long
Prefix_all(s, n) == s

\* s[:n]
Prefix(s, n) == SubSeq(s, 1, Min2(n, Len(s)))

\* datetime.utcnow().strftime("%Y%m%dT%H%M%S"): the clock readings of the model
Timestamps == {"20240101T000000"}
\* uuid4().hex[:6]
RandomTails == {"0a1b2c", "ffffff"}

\* raw: job_meta.get("job_id"), any JSON value; timestamp and random_tail
\* are what the clock and uuid4 give when the id is synthesized
normalize_job_id(raw, timestamp, random_tail) ==
    LET value == strip(IF Truthy(raw) THEN PyStr(raw) ELSE "", Whitespace)
        sanitized == strip(Sanitize(value), {"-"})
    IN  IF value # "" /\ sanitized # ""
        THEN Prefix(sanitized, MaxJobIdLen)
        ELSE "job-" \o timestamp \o "-" \o random_tail

\* `d.setdefault("job_meta", {}) if isinstance(d.get("job_meta"), dict) else {}`
JobMetaOf(d) == IF IsObj(Get(d, "job_meta")) THEN d.f["job_meta"] ELSE EmptyObj

\* dict.update: every key of `other` written into `o`
Update(o, other) ==
    JObj([k \in Keys(o) \cup Keys(other) |->
            IF Has(other, k) THEN other.f[k] ELSE o.f[k]])

\* A save that names its document after the random tail, one per call
save_intent_with_job_directory_fresh(intent, timestamp, random_tail) ==
    LET copy == deep_copy_json(intent)
        job_meta == JobMetaOf(copy)
        job_id == normalize_job_id(Get(job_meta, "job_id"), timestamp, random_tail)
        final_intent == Put(copy, "job_meta", Put(job_meta, "job_id", JStr(job_id)))
    IN  [final_intent |-> final_intent,
         job_id |-> job_id,
         relative_path |-> job_id \o "/intent-" \o random_tail \o ".json",
         storage_path |-> "storage/" \o job_id \o "/intent.json"]

\* Returns [final_intent, job_id, relative_path, storage_path]; the file
\* written is <STORAGE_DIR>/<job_id>/intent.json and holds final_intent.
save_intent_with_job_directory(intent, timestamp, random_tail) ==
    LET copy == deep_copy_json(intent)
        job_meta == JobMetaOf(copy)
        job_id == normalize_job_id(Get(job_meta, "job_id"), timestamp, random_tail)
        final_intent == Put(copy, "job_meta", Put(job_meta, "job_id", JStr(job_id)))
    IN  [final_intent |-> final_intent,
         job_id |-> job_id,
         relative_path |-> job_id \o "/intent.json",
         storage_path |-> "storage/" \o job_id \o "/intent.json"]

----------------------------------------------------------------------------
(* coerce_string_list *)

coerce_string_list(value) ==
    LET
        \* the pieces of s between line breaks, stripped, the empty ones dropped
        RECURSIVE StrippedLines(_)
        StrippedLines(s) ==
            LET breaks == {i \in 1..Len(s) : SubSeq(s, i, i) \in {"\n", "\r"}}
            IN  IF breaks = {}
                THEN (IF strip(s, Whitespace) # "" THEN <<strip(s, Whitespace)>> ELSE << >>)
                ELSE LET b == CHOOSE i \in breaks : \A j \in breaks : i <= j
                         first == strip(SubSeq(s, 1, b - 1), Whitespace)
                     IN  (IF first # "" THEN <<first>> ELSE << >>)
                            \o StrippedLines(SubSeq(s, b + 1, Len(s)))
        \* what one item of a list contributes
        CoerceItem(item) ==
            IF IsStr(item)
            THEN (IF strip(item.s, Whitespace) # "" THEN <<strip(item.s, Whitespace)>> ELSE << >>)
            ELSE IF IsObj(item)
            THEN LET candidate ==
                        IF IsStr(Get(item, "text")) THEN Get(item, "text")
                        ELSE IF IsStr(Get(item, "message")) THEN Get(item, "message")
                        ELSE IF IsStr(Get(item, "detail")) THEN Get(item, "detail")
                        ELSE JStr("")
                 IN  IF strip(candidate.s, Whitespace) # ""
                     THEN <<strip(candidate.s, Whitespace)>> ELSE << >>
            ELSE (IF strip(PyStr(item), Whitespace) # ""
                  THEN <<strip(PyStr(item), Whitespace)>> ELSE << >>)
    IN
    IF value = JNull THEN << >>
    ELSE IF IsArr(value)
    THEN ConcatAll([i \in DOMAIN value.a |-> CoerceItem(value.a[i])], Len(value.a))
    ELSE IF IsStr(value) THEN StrippedLines(value.s)
    ELSE (IF strip(PyStr(value), Whitespace) # ""
          THEN <<strip(PyStr(value), Whitespace)>> ELSE << >>)

----------------------------------------------------------------------------
(* The request handlers: what they read                                    *)

\* the largest number of requests of a run
MaxRequests == 2

\* a document with a fluid, and optionally a profile, a meshing block and a
\* job_meta
Doc(profile, fluid, meshing, job_meta) ==
    MkObj([profile |-> profile,
           materials |-> MkObj([fluid |-> MkObj([name |-> JStr(fluid)])]),
           meshing |-> meshing,
           job_meta |-> job_meta])

\* a blockMesh meshing block
BlockMesh(dimension_mode, nz) ==
    MkObj([mode |-> JStr("blockMesh"),
           blockMesh |-> MkObj([
               geometry |-> MkObj([dimension_mode |-> JStr(dimension_mode),
                                   height_m |-> JFloat(2)]),
               cells |-> MkObj([nz |-> JInt(nz)])])])

\* load_json(meta["template"]): the template files are data outside the
\* source; each holds a document that conforms to the profile's schema
TemplateOf(meta) ==
    IF meta.profile = ProfileOF
    THEN Doc(JStr(ProfileOF), "water", BlockMesh("3D", 4), Absent)
    ELSE Doc(JStr(ProfileMesh), "water", Absent, Absent)

\* a profile name no registry entry has
BogusProfile == JStr("CoolingPlate-Intent@other")

\* the intents a client or a generation call may send: conforming, with a
\* wrong or missing profile, with a field of a wrong type, with a value out
\* of range, empty
SomeIntents ==
    {EmptyObj,
     Doc(Absent, "oil", Absent, Absent),
     Doc(BogusProfile, "oil", Absent, Absent),
     MkObj([profile |-> BogusProfile]),
     MkObj([materials |-> JStr("water")]),
     Doc(Absent, "oil", BlockMesh("2D_extruded", 0), Absent)}

Slugs == {JStr(SlugOF), JStr(SlugMesh), JStr("coolingplate-unknown")}

\* FillRequest: profile_slug, use_template, client_intent (Optional[dict])
FillRequests ==
    {[op |-> "intent_fill", profile_slug |-> g, use_template |-> u,
      client_intent |-> c, dimension_mode |-> Absent, job_meta |-> Absent,
      intent |-> Absent] :
        g \in Slugs, u \in BOOLEAN, c \in {JNull} \cup SomeIntents}

\* what call_llm_collect_parameters may return: any JSON value
CollectorResults ==
    LET
        \* one entry of missing_parameters written as an object
        MissingEntry ==
            MkObj([label |-> JStr("inlet velocity"), path |-> JStr("$.inlet"),
                   suggested |-> MkObj([text |-> JStr("1 m/s")])])
        \* the collector's missing_parameters: absent, an empty list, entries that
        \* are strings, objects or both, and a value that is no list
        MissingLists ==
            {Absent, JArr(<< >>), JArr(<<JStr("inlet velocity")>>), JArr(<<MissingEntry>>),
             JArr(<<JStr("inlet velocity"), MissingEntry>>), JArr(<<EmptyObj>>),
             JStr("inlet velocity")}
    IN
    {JArr(<< >>)}
    \cup {MkObj([intent |-> i, missing_parameters |-> m, default_intent |-> d,
                 defaults_overview |-> o, summary |-> s]) :
            i \in {Absent, Doc(BogusProfile, "oil", Absent, Absent),
                   MkObj([materials |-> JStr("water")])},
            m \in MissingLists,
            d \in {Absent, MkObj([profile |-> BogusProfile])},
            o \in {Absent},
            s \in {Absent}}
    \cup {MkObj([intent |-> JStr("x"), missing_parameters |-> JArr(<<MissingEntry>>),
                 default_intent |-> JStr("x"),
                 defaults_overview |-> MkObj([notes |-> JStr("n")]),
                 summary |-> JStr(" two inputs are missing ")])}

\* what call_reasoner_review may return: any JSON value
ReviewerResults ==
    {JArr(<< >>), EmptyObj,
     MkObj([updated_intent |-> JStr("x"), physics_check |-> JStr("pass")])}
    \cup {MkObj([updated_intent |-> u,
                 physics_check |-> MkObj([status |-> JStr("pass")]),
                 expert_review |-> MkObj([summary |-> JStr("fine")]),
                 auto_corrections |-> MkObj([applied |-> JArr(<<JStr("nz")>>)])]) :
            u \in SomeIntents}

\* the ways a generation call fails, with the text of the exception
\* (call_llm_json_response, call_reasoner_review)
FailureKinds == {"config", "status", "timeout", "transport", "shape", "malformed"}

ErrorText(kind) ==
    CASE kind = "config" -> "LLM configuration missing"
      [] kind = "status" -> "502 Bad Gateway @ url :: body"
      [] kind = "timeout" -> "upstream timeout @ url"
      [] kind = "transport" -> "request failed @ url :: reset"
      [] kind = "shape" -> "'choices'"
      [] kind = "malformed" -> "model returned no JSON: text..."

\* in place of a JSON value: the expression raised
RaisedValue == [t |-> "raised"]

\* a failed generation call
Failure(kind) == [t |-> "error", kind |-> kind, message |-> ErrorText(kind)]

\* FillFastRequest: profile_slug, dimension_mode, job_meta
FillFastRequests ==
    {[op |-> "intent_fill_fast", profile_slug |-> g, use_template |-> Absent,
      client_intent |-> Absent, dimension_mode |-> m, job_meta |-> j,
      intent |-> Absent] :
        g \in Slugs,
        m \in {JNull, JStr("3D"), JStr("2D_extruded"), JStr("2D")},
        j \in {JNull, MkObj([job_id |-> JStr("My Job/1")])}}

\* what call_llm_fill_fast may return
FastResults ==
    {JStr("x"), EmptyObj,
     MkObj([intent |-> JStr("x"), defaults_used |-> JStr("nz\n rho ")]),
     MkObj([intent |-> MkObj([meshing |-> JInt(5)])]),
     MkObj([intent |-> MkObj([meshing |-> MkObj([blockMesh |-> JNull])])]),
     MkObj([intent |-> Doc(BogusProfile, "oil", BlockMesh("3D", MaxNz), MkObj([owner |-> JStr("a")])),
            defaults_used |-> JArr(<<JStr(" nz "), MkObj([text |-> JStr("rho")])>>),
            open_questions |-> JArr(<<JInt(1)>>)])}

\* SaveIntentRequest: intent (a dict), profile_slug, job_meta
SaveRequests ==
    {[op |-> "intent_save", profile_slug |-> g, use_template |-> Absent,
      client_intent |-> Absent, dimension_mode |-> Absent, job_meta |-> j,
      intent |-> i] :
        g \in {JNull, JStr(""), JStr(SlugMesh), JStr("coolingplate-unknown")},
        j \in {JNull, MkObj([job_id |-> JStr("run-1")])},
        i \in {EmptyObj,
               MkObj([profile |-> BogusProfile]),
               MkObj([profile |-> JArr(<<JInt(1)>>)]),
               Doc(JStr(ProfileOF), "oil", Absent, Absent),
               Doc(JStr(ProfileOF), "oil", Absent, MkObj([job_id |-> JStr(" My Job/1 ")])),
               Doc(JStr(ProfileMesh), "oil", Absent, MkObj([job_id |-> JStr("//")])),
               Doc(JStr(ProfileMesh), "oil", Absent, JStr("x"))}}

----------------------------------------------------------------------------
(* The request handlers: what they answer                                  *)

\* a response: the status code and the keys of the JSON body as JSON
\* values (human_summary and issues as the sequence of their lines and
\* entries); a key the body does not have is Absent
BlankResponse ==
    [code |-> 200, detail |-> Absent, profile_slug |-> Absent, family |-> Absent,
     intent |-> Absent, human_summary |-> Absent, review |-> Absent,
     pipeline_status |-> Absent, missing_parameters |-> Absent,
     default_intent |-> Absent, defaults_overview |-> Absent,
     defaults_used |-> Absent, open_questions |-> Absent,
     dimension_mode |-> Absent, valid |-> Absent, issues |-> Absent,
     ok |-> Absent, job_id |-> Absent, relative_path |-> Absent,
     storage_path |-> Absent, filename |-> Absent, path |-> Absent]

Response(fields) == fields @@ BlankResponse

\* a list of strings as a JSON array
StrList(q) == JArr([i \in DOMAIN q |-> JStr(q[i])])

\* raise HTTPException(status_code=code, detail=...)
HTTPError(code, detail) == Response([code |-> code, detail |-> JStr(detail)])

\* an exception no handler catches: the framework answers 500
InternalError == HTTPError(500, "Internal Server Error")

\* A write that keeps a profile the document already has
ForceProfile_keep(intent_obj, meta) ==
    SetDefault(intent_obj, "profile", JStr(meta.profile))

\* intent["profile"] = meta["profile"]
ForceProfile(intent_obj, meta) == Put(intent_obj, "profile", JStr(meta.profile))

\* `if missing_list:`
HasMissing(missing_list) == Len(missing_list) > 0

\* A check that lets every initial result through
InitialCheckFails_never(result) == FALSE

\* `if not schema_initial["valid"]:`
InitialCheckFails(result) == ~result.valid

\* A failure branch that does not record the error
ReasonerFailedReview_silent(review, message) == review

\* review_payload["reasoner_error"] = str(e)
ReasonerFailedReview(review, message) ==
    [review EXCEPT !.reasoner_error = JStr(message)]

\* final_intent after `if isinstance(updated_intent, dict): final_intent =
\* deep_copy_json(updated_intent)`
AdoptUpdated(intent_obj, raw) ==
    LET updated_intent == IF IsObj(raw) THEN Get(raw, "updated_intent") ELSE JNull
    IN  IF IsObj(updated_intent) THEN deep_copy_json(updated_intent) ELSE intent_obj

\* the dict format_schema_errors built, as the object numbered oid
WithOid(result, oid) == [oid |-> oid, valid |-> result.valid, issues |-> result.issues]

\* the body intent_fill answers with; the summary that raised ends the
\* request with an unhandled exception
FillResponse(profile_slug, meta, intent, human_summary, review, status, missing, defaults_intent, defaults_overview) ==
    IF human_summary = Raised THEN InternalError
    ELSE Response(
            [profile_slug |-> profile_slug,
             family |-> JStr(meta.family),
             intent |-> intent,
             human_summary |-> human_summary,
             review |-> review,
             pipeline_status |-> JStr(status),
             missing_parameters |-> JArr(missing),
             default_intent |-> IF Truthy(defaults_intent) THEN defaults_intent ELSE Absent,
             defaults_overview |-> IF IsObj(defaults_overview) THEN defaults_overview ELSE Absent])

\* the handler's locals after a step
Locals(tpl, col, raw, rev, fi, di, dov, si, rp, st) ==
    /\ h_template_obj' = tpl
    /\ h_collected' = col
    /\ h_reasoner_raw' = raw
    /\ h_reviewed_intent' = rev
    /\ h_final_intent' = fi
    /\ h_defaults_intent' = di
    /\ h_defaults_overview' = dov
    /\ h_schema_initial' = si
    /\ h_review_payload' = rp
    /\ h_pipeline_status' = st

\* the locals of a handler that has not assigned any
NoLocals(tpl) ==
    Locals(tpl, Absent, Absent, Absent, Absent, JNull, JNull, NoResult, NoReview, "ok")

\* a request arrives: the server takes it when no request is in progress
Receive(r) ==
    /\ pc = "idle"
    /\ nreq < MaxRequests
    /\ nreq' = nreq + 1
    /\ req' = r

----------------------------------------------------------------------------
(* intent_fill                                                             *)

\* From `final_intent["profile"] = meta["profile"]` to the reviewer call:
\* the initial validation, then either the schema_failed response or the
\* call of call_reasoner_review(final_intent, meta, schema).
InitialCheck(merged, defaults_intent, defaults_overview, meta, stages) ==
    LET fi == ForceProfile(merged, meta)
        si == WithOid(format_schema_errors(schema_validate(fi, SchemaOf(meta))), 1)
        rp == [NoReview EXCEPT !.schema_initial = si]
    IN  IF InitialCheckFails(si)
        THEN /\ Locals(h_template_obj', h_collected', Absent, Absent, fi,
                       defaults_intent, defaults_overview, si, rp, "schema_failed")
             /\ response' = FillResponse(
                    req'.profile_slug, meta, fi,
                    build_multilayer_summary(si, NoResult, rp, fi, "schema_failed", JNull),
                    rp, "schema_failed", << >>, defaults_intent, defaults_overview)
             /\ trail' = stages \o <<"schema_initial_check", "schema_failed">>
             /\ pc' = "done"
        ELSE /\ Locals(h_template_obj', h_collected', Absent, fi, fi,
                       defaults_intent, defaults_overview, si, rp, "ok")
             /\ response' = Absent
             /\ trail' = stages \o <<"schema_initial_check", "reasoner_review">>
             /\ pc' = "reviewing"

\* The request arrives.  An unknown slug is answered 400.  With a client
\* intent the handler merges it and goes on to the initial validation;
\* without one it calls the collector.
FillReceive(r) ==
    /\ Receive(r)
    /\ UNCHANGED <<funVars, storage>>
    /\ LET meta == RegistryGet(r.profile_slug.s)
           template == IF r.use_template THEN TemplateOf(meta) ELSE EmptyObj
           tpl == IF IsObj(template) THEN template ELSE EmptyObj
       IN  IF meta = NoMeta
           THEN /\ NoLocals(Absent)
                /\ response' = HTTPError(400, "unknown profile_slug")
                /\ trail' = << >>
                /\ pc' = "done"
           ELSE IF r.client_intent = JNull
           THEN /\ NoLocals(tpl)
                /\ response' = Absent
                /\ trail' = <<"collecting">>
                /\ pc' = "collecting"
           ELSE /\ h_template_obj' = tpl
                /\ h_collected' = Absent
                /\ InitialCheck(merge_with_template(tpl, r.client_intent),
                                JNull, JNull, meta, << >>)

\* call_llm_collect_parameters raises: the request fails with 502
CollectorFails(kind) ==
    /\ pc = "collecting"
    /\ UNCHANGED <<funVars, storage, nreq, req>>
    /\ NoLocals(h_template_obj)
    /\ response' = HTTPError(502, ErrorText(kind))
    /\ trail' = trail
    /\ pc' = "done"

\* call_llm_collect_parameters returns c
CollectorReturns(c) ==
    /\ pc = "collecting"
    /\ UNCHANGED <<funVars, storage, nreq, req>>
    /\ LET meta == RegistryGet(req.profile_slug.s)
           collected_dict == IF IsObj(c) THEN c ELSE EmptyObj
           intent_raw == IF IsObj(Get(collected_dict, "intent"))
                         THEN Get(collected_dict, "intent") ELSE EmptyObj
           intent == ForceProfile(merge_with_template(h_template_obj, intent_raw), meta)
           missing_list == normalize_missing_parameters(Get(collected_dict, "missing_parameters"))
           defaults_overview_raw == Get(collected_dict, "defaults_overview")
           defaults_overview == IF IsObj(defaults_overview_raw)
                                THEN defaults_overview_raw ELSE JNull
           summary_hint == StrOrEmptyStripped(Get(collected_dict, "summary"))
           default_intent_raw == Get(collected_dict, "default_intent")
           defaults_intent ==
               IF IsObj(default_intent_raw)
               THEN ForceProfile(merge_with_template(h_template_obj, default_intent_raw), meta)
               ELSE JNull
           collecting_review ==
               [NoReview EXCEPT !.stage = JStr("collecting"),
                                !.summary = JStr(summary_hint),
                                !.missing = missing_list,
                                !.defaults_overview = defaults_overview]
       IN  /\ h_template_obj' = h_template_obj
           /\ h_collected' = c
           /\ IF HasMissing(missing_list)
              THEN /\ Locals(h_template_obj', h_collected', Absent, Absent, Absent,
                             defaults_intent, defaults_overview, NoResult,
                             collecting_review, "needs_parameters")
                   /\ response' = FillResponse(
                          req.profile_slug, meta, intent,
                          build_collection_summary(missing_list, summary_hint),
                          collecting_review, "needs_parameters", missing_list,
                          defaults_intent, defaults_overview)
                   /\ trail' = trail \o <<"needs_parameters">>
                   /\ pc' = "done"
              ELSE InitialCheck(deep_copy_json(intent), defaults_intent,
                                defaults_overview, meta, trail)

\* call_reasoner_review raises (any Exception): the request answers with
\* the intent it had and the error in the review payload
ReviewerFails(kind) ==
    /\ pc = "reviewing"
    /\ UNCHANGED <<funVars, storage, nreq, req>>
    /\ LET meta == RegistryGet(req.profile_slug.s)
           e == Failure(kind)
           rp == ReasonerFailedReview(h_review_payload, e.message)
       IN  /\ Locals(h_template_obj, h_collected, e, h_reviewed_intent,
                     h_final_intent, h_defaults_intent, h_defaults_overview,
                     h_schema_initial, rp, "reasoner_failed")
           /\ response' = FillResponse(
                  req.profile_slug, meta, h_final_intent,
                  build_multilayer_summary(h_schema_initial, h_schema_initial, rp,
                                           h_final_intent, "reasoner_failed", JNull),
                  rp, "reasoner_failed", << >>, h_defaults_intent, h_defaults_overview)
           /\ trail' = trail \o <<"reasoner_failed">>
           /\ pc' = "done"

\* call_reasoner_review returns raw: the updated intent is adopted, the
\* profile forced and the result validated again
ReviewerReturns(raw) ==
    /\ pc = "reviewing"
    /\ UNCHANGED <<funVars, storage, nreq, req>>
    /\ LET meta == RegistryGet(req.profile_slug.s)
           fi == ForceProfile(AdoptUpdated(h_final_intent, raw), meta)
           schema_final ==
               WithOid(format_schema_errors(schema_validate(fi, SchemaOf(meta))), 2)
           rp == [h_review_payload EXCEPT
                    !.schema_final = schema_final,
                    !.physics = IF IsObj(raw) THEN Get(raw, "physics_check") ELSE JNull,
                    !.expert = IF IsObj(raw) THEN Get(raw, "expert_review") ELSE JNull,
                    !.auto_corrections =
                        IF IsObj(raw) THEN Get(raw, "auto_corrections") ELSE JNull]
           status == IF ~schema_final.valid THEN "schema_regression"
                     ELSE h_pipeline_status
       IN  /\ Locals(h_template_obj, h_collected, raw, h_reviewed_intent, fi,
                     h_defaults_intent, h_defaults_overview, h_schema_initial,
                     rp, status)
           /\ response' = FillResponse(
                  req.profile_slug, meta, fi,
                  build_multilayer_summary(h_schema_initial, schema_final, rp, fi,
                                           status, JNull),
                  rp, status, << >>, h_defaults_intent, h_defaults_overview)
           /\ trail' = trail \o <<"schema_final_check", status>>
           /\ pc' = "done"

----------------------------------------------------------------------------
(* intent_fill_fast                                                        *)

\* The request arrives: the template is prepared for the dimension mode and
\* call_llm_fill_fast is called.
FillFastReceive(r) ==
    /\ Receive(r)
    /\ UNCHANGED <<funVars, storage>>
    /\ LET meta == RegistryGet(r.profile_slug.s)
           template_raw == TemplateOf(meta)
           tpl == IF IsObj(template_raw) THEN template_raw ELSE EmptyObj
           dimension_mode == normalize_dimension_mode(r.dimension_mode)
           prepared_template == apply_dimension_mode_to_template(tpl, dimension_mode)
       IN  IF meta = NoMeta
           THEN /\ NoLocals(Absent)
                /\ response' = HTTPError(400, "unknown profile_slug")
                /\ trail' = << >>
                /\ pc' = "done"
           ELSE /\ NoLocals(prepared_template)
                /\ response' = Absent
                /\ trail' = <<"filling_fast">>
                /\ pc' = "filling_fast"

\* call_llm_fill_fast raises: 502
FastLLMFails(kind) ==
    /\ pc = "filling_fast"
    /\ UNCHANGED <<funVars, storage, nreq, req>>
    /\ NoLocals(h_template_obj)
    /\ response' = HTTPError(502, ErrorText(kind))
    /\ trail' = trail
    /\ pc' = "done"

\* job_meta.update(req.job_meta); intent["job_meta"] = job_meta, when the
\* request's job_meta is a dict
MergeJobMeta(intent_obj, job_meta) ==
    IF IsObj(job_meta)
    THEN Put(intent_obj, "job_meta", Update(JobMetaOf(intent_obj), job_meta))
    ELSE intent_obj

\* call_llm_fill_fast returns llm_result
FastLLMReturns(llm_result) ==
    LET
        \* (intent.get("meshing") or {}).get("blockMesh", {}).get("geometry", {}),
        \* then geo.get("dimension_mode") if geo is a dict: RaisedValue when a .get
        \* is applied to a value that is no dict
        EffectiveDimension(intent_obj) ==
            LET meshing == GetOrEmpty(intent_obj, "meshing")
            IN  IF ~IsObj(meshing) THEN RaisedValue
                ELSE LET block == GetOr(meshing, "blockMesh", EmptyObj)
                     IN  IF ~IsObj(block) THEN RaisedValue
                         ELSE LET geo == GetOr(block, "geometry", EmptyObj)
                              IN  IF IsObj(geo) THEN Get(geo, "dimension_mode") ELSE JNull
    IN
    /\ pc = "filling_fast"
    /\ UNCHANGED <<funVars, storage, nreq, req>>
    /\ LET meta == RegistryGet(req.profile_slug.s)
           dimension_mode == normalize_dimension_mode(req.dimension_mode)
           llm_intent_raw == IF IsObj(llm_result) THEN Get(llm_result, "intent") ELSE JNull
           merged == ForceProfile(
                        merge_with_template(h_template_obj,
                            IF IsObj(llm_intent_raw) THEN llm_intent_raw ELSE EmptyObj),
                        meta)
           intent == enforce_dimension_mode(MergeJobMeta(merged, req.job_meta),
                                            dimension_mode, h_template_obj)
           effective_dimension == EffectiveDimension(intent)
       IN  /\ Locals(h_template_obj, Absent, Absent, Absent,
                     IF IsObj(llm_result) THEN intent ELSE Absent,
                     JNull, JNull, NoResult, NoReview, "ok")
           /\ response' =
                IF ~IsObj(llm_result) THEN HTTPError(502, "LLM returned no JSON object")
                ELSE IF effective_dimension = RaisedValue THEN InternalError
                ELSE Response(
                        [profile_slug |-> req.profile_slug,
                         family |-> JStr(meta.family),
                         intent |-> intent,
                         defaults_used |-> StrList(coerce_string_list(Get(llm_result, "defaults_used"))),
                         open_questions |-> StrList(coerce_string_list(Get(llm_result, "open_questions"))),
                         dimension_mode |-> effective_dimension])
           /\ trail' = trail
           /\ pc' = "done"

----------------------------------------------------------------------------
(* intent_save                                                             *)

\* the lookup that raised instead of returning an entry
MetaRaised == [family |-> "", profile |-> "", slug |-> "raised"]

\* the profile entry the request names: by slug, else by intent.profile;
\* NoMeta when neither is known, MetaRaised when intent.profile cannot be a
\* dict key (a list or an object)
ResolveMeta(profile_slug, intent_obj) ==
    LET by_slug == IF Truthy(profile_slug) THEN RegistryGet(profile_slug.s) ELSE NoMeta
        profile_name == Get(intent_obj, "profile")
    IN  IF by_slug # NoMeta THEN by_slug
        ELSE IF ~Truthy(profile_name) THEN NoMeta
        ELSE IF profile_name.t \in {"arr", "obj"} THEN MetaRaised
        ELSE IF IsStr(profile_name) /\ profile_name.s \in DOMAIN PROFILE_BY_NAME
        THEN PROFILE_BY_NAME[profile_name.s]
        ELSE NoMeta

\* what the file system does on a save: the directory and the file are
\* written, or mkdir fails, or opening the file fails after mkdir
IOOutcomes == {"ok", "mkdir_fails", "open_fails"}

\* The whole handler: resolve the profile, force it, merge job_meta,
\* validate, and only then write <job_id>/intent.json.
IntentSave(r, timestamp, random_tail, io) ==
    /\ Receive(r)
    /\ UNCHANGED funVars
    /\ NoLocals(Absent)
    /\ trail' = << >>
    /\ pc' = "done"
    /\ LET meta == ResolveMeta(r.profile_slug, r.intent)
       IN  IF ~IsObj(r.intent)
           THEN /\ response' = HTTPError(400, "intent must be an object")
                /\ storage' = storage
           ELSE IF meta = MetaRaised
           THEN /\ response' = InternalError
                /\ storage' = storage
           ELSE IF meta = NoMeta
           THEN /\ response' = HTTPError(400, "unknown profile")
                /\ storage' = storage
           ELSE
           LET intent_obj == MergeJobMeta(ForceProfile(deep_copy_json(r.intent), meta),
                                          r.job_meta)
               validation == format_schema_errors(schema_validate(intent_obj, SchemaOf(meta)))
               saved == save_intent_with_job_directory(intent_obj, timestamp, random_tail)
           IN  IF ~validation.valid
               THEN /\ response' = Response([code |-> 400, valid |-> JBool(FALSE),
                                             issues |-> validation.issues])
                    /\ storage' = storage
               ELSE IF io = "mkdir_fails"
               THEN /\ response' = HTTPError(500, "save failed")
                    /\ storage' = storage
               ELSE IF io = "open_fails"
               THEN /\ response' = HTTPError(500, "save failed")
                    /\ storage' = [storage EXCEPT !.dirs = @ \cup {saved.job_id}]
               ELSE /\ response' = Response(
                            [ok |-> JBool(TRUE),
                             job_id |-> JStr(saved.job_id),
                             relative_path |-> JStr(saved.relative_path),
                             storage_path |-> JStr(saved.storage_path),
                             intent |-> saved.final_intent,
                             profile_slug |-> IF Truthy(r.profile_slug) THEN r.profile_slug
                                              ELSE JStr(meta.slug)])
                    /\ storage' =
                            [dirs |-> storage.dirs \cup {saved.job_id},
                             files |-> (saved.relative_path :> saved.final_intent)
                                          @@ storage.files,
                             writes |-> storage.writes + 1]

----------------------------------------------------------------------------
(* intent_apply                                                            *)

\* Returns [filename, path]; the file written is <STORAGE_DIR>/<filename>
\* and holds intent.
save_intent_to_storage(intent, profile_slug, timestamp) ==
    LET RECURSIVE NoSlash(_)
        NoSlash(str) ==
            IF Len(str) = 0 THEN ""
            ELSE IF Len(str) = 1 THEN (IF str = "/" THEN "-" ELSE str)
            ELSE NoSlash(SubSeq(str, 1, Len(str) \div 2))
                    \o NoSlash(SubSeq(str, Len(str) \div 2 + 1, Len(str)))
        filename == NoSlash(profile_slug) \o "_" \o timestamp \o ".json"
    IN  [filename |-> filename, path |-> "storage/" \o filename]

\* ApplyIntentRequest: intent (a dict)
ApplyRequests ==
    {[op |-> "intent_apply", profile_slug |-> Absent, use_template |-> Absent,
      client_intent |-> Absent, dimension_mode |-> Absent, job_meta |-> Absent,
      intent |-> i] :
        i \in {EmptyObj,
               MkObj([profile |-> BogusProfile]),
               MkObj([profile |-> JArr(<<JInt(1)>>)]),
               MkObj([profile |-> JStr(ProfileMesh)]),
               Doc(JStr(ProfileOF), "oil", Absent, MkObj([job_id |-> JStr("run-1")]))}}

\* The whole handler: look the profile up by intent.profile, validate, and
\* write <slug>_<timestamp>.json.
IntentApply(r, timestamp, io) ==
    /\ Receive(r)
    /\ UNCHANGED funVars
    /\ NoLocals(Absent)
    /\ trail' = << >>
    /\ pc' = "done"
    /\ LET profile_name == Get(r.intent, "profile")
           meta == ResolveMeta(JNull, r.intent)
       IN  IF ~Truthy(profile_name)
           THEN /\ response' = HTTPError(400, "intent has no profile")
                /\ storage' = storage
           ELSE IF meta = MetaRaised
           THEN /\ response' = InternalError
                /\ storage' = storage
           ELSE IF meta = NoMeta
           THEN /\ response' = HTTPError(400, "unknown intent.profile")
                /\ storage' = storage
           ELSE
           LET schema_result == format_schema_errors(schema_validate(r.intent, SchemaOf(meta)))
               saved == save_intent_to_storage(r.intent, meta.slug, timestamp)
           IN  IF ~schema_result.valid
               THEN /\ response' = HTTPError(400, "schema validation failed")
                    /\ storage' = storage
               ELSE IF io # "ok"
               THEN /\ response' = HTTPError(500, "save failed")
                    /\ storage' = storage
               ELSE /\ response' = Response(
                            [ok |-> JBool(TRUE),
                             filename |-> JStr(saved.filename),
                             profile_slug |-> JStr(meta.slug),
                             path |-> JStr(saved.path)])
                    /\ storage' =
                            [storage EXCEPT
                                !.files = (saved.filename :> r.intent) @@ @,
                                !.writes = @ + 1]

----------------------------------------------------------------------------
(* Spec: the server answering requests one after another *)

Init ==
    /\ phase = "args"
    /\ fn = "none"
    /\ t_in = Absent
    /\ o_in = Absent
    /\ mode_in = Absent
    /\ out = Absent
    /\ heap = << >>
    /\ BridgeIdle
    /\ PipeIdle

\* The response is sent and the handler returns: its locals are gone, the
\* storage directory stays.
Finish ==
    /\ pc = "done"
    /\ pc' = "idle"
    /\ req' = Absent
    /\ NoLocals(Absent)
    /\ response' = Absent
    /\ trail' = << >>
    /\ UNCHANGED <<funVars, storage, nreq>>

Next ==
    \/ \E r \in FillRequests : FillReceive(r)
    \/ \E kind \in FailureKinds : CollectorFails(kind)
    \/ \E c \in CollectorResults : CollectorReturns(c)
    \/ \E kind \in FailureKinds : ReviewerFails(kind)
    \/ \E raw \in ReviewerResults : ReviewerReturns(raw)
    \/ \E r \in FillFastRequests : FillFastReceive(r)
    \/ \E kind \in FailureKinds : FastLLMFails(kind)
    \/ \E llm_result \in FastResults : FastLLMReturns(llm_result)
    \/ \E r \in SaveRequests, timestamp \in Timestamps,
          random_tail \in RandomTails, io \in IOOutcomes :
            IntentSave(r, timestamp, random_tail, io)
    \/ \E r \in ApplyRequests, timestamp \in Timestamps, io \in IOOutcomes :
            IntentApply(r, timestamp, io)
    \/ Finish

Spec == Init /\ [][Next]_vars

----------------------------------------------------------------------------
(* _strip_json_comments                                                    *)

\* A stripper that returns the text as it is
strip_json_comments_keep(raw) == raw

\* The loop over raw: i is the (1-based) position, in_string, escape and
\* string_delim the loop's flags; the result is what is appended from i on.
strip_json_comments(raw) ==
    LET length == Len(raw)
        ch(i) == SubSeq(raw, i, i)
        RECURSIVE SkipLine(_)
        \* while i < length and raw[i] not in "\r\n": i += 1
        SkipLine(i) ==
            IF i <= length /\ ch(i) \notin {"\r", "\n"} THEN SkipLine(i + 1) ELSE i
        RECURSIVE SkipBlock(_)
        \* while i + 1 < length and not (raw[i] == "*" and raw[i+1] == "/"): i += 1
        \* and then i += 2
        SkipBlock(i) ==
            IF i + 1 <= length /\ ~(ch(i) = "*" /\ ch(i + 1) = "/")
            THEN SkipBlock(i + 1) ELSE i + 2
        RECURSIVE Scan(_, _, _, _)
        Scan(i, in_string, escape, string_delim) ==
            IF i > length THEN ""
            ELSE IF in_string
            THEN ch(i) \o Scan(i + 1,
                               IF escape THEN TRUE
                               ELSE IF ch(i) = "\\" THEN TRUE
                               ELSE ch(i) # string_delim,
                               IF escape THEN FALSE ELSE ch(i) = "\\",
                               string_delim)
            ELSE IF ch(i) \in {"\"", "'"}
            THEN ch(i) \o Scan(i + 1, TRUE, escape, ch(i))
            ELSE IF ch(i) = "/" /\ i + 1 <= length /\ ch(i + 1) = "/"
            THEN Scan(SkipLine(i + 2), in_string, escape, string_delim)
            ELSE IF ch(i) = "/" /\ i + 1 <= length /\ ch(i + 1) = "*"
            THEN Scan(SkipBlock(i + 2), in_string, escape, string_delim)
            ELSE ch(i) \o Scan(i + 1, in_string, escape, string_delim)
    IN  Scan(1, FALSE, FALSE, "")

----------------------------------------------------------------------------
(* SpecFun: the pure functions of the handlers, each called once on        *)
(* arguments of a bounded universe.  o_in holds the call: the function's   *)
(* name and its arguments; out holds what it returned.                     *)

\* the longest raw job id of the universe (ids are cut at 120 characters)
MaxRawLen == 122

\* the longest text given to _strip_json_comments
MaxTextLen == 5

InitFun ==
    LET \* the texts of at most n characters: quotes, a backslash, the
        \* characters of comment marks, a line break, a letter
        RECURSIVE Texts(_)
        Texts(n) ==
            IF n = 0 THEN {""}
            ELSE Texts(n - 1) \cup
                 {text \o c : text \in Texts(n - 1),
                              c \in {"\"", "'", "\\", "/", "*", "\n", "a"}}
        RECURSIVE Repeat(_, _)
        Repeat(str, n) ==
            IF n = 0 THEN ""
            ELSE IF n = 1 THEN str
            ELSE Repeat(str, n \div 2) \o Repeat(str, n - n \div 2)
        \* raw job ids: absent, empty, blank, with unsafe characters, with
        \* only unsafe or only "-" characters, no string, around 120 long
        raws ==
            {JNull, JInt(0), JInt(42), JBool(TRUE), EmptyObj}
            \cup {JStr(str) : str \in {"", " ", "\t\n", "My Job/1", " My Job/1 ", "run-1",
                                      "//", "---", " - ", "_", "-a-", "a b", "?x?", "a.b/c",
                                      "../etc", "#", "-_-"}}
            \cup {JStr(a \o Repeat("a", n) \o z) :
                    a \in {"", "/", "b "}, z \in {"", "-b", "/"}, n \in 117..MaxRawLen}
        issue == [path |-> "$.materials", message |-> "required:fluid"]
        \* schema results: none, valid, invalid with one and with five issues
        initials ==
            {NoResult, [oid |-> 1, valid |-> TRUE, issues |-> << >>],
             [oid |-> 1, valid |-> FALSE, issues |-> <<issue>>],
             [oid |-> 1, valid |-> FALSE, issues |-> <<issue, issue, issue, issue, issue>>]}
        finals ==
            {NoResult, [oid |-> 2, valid |-> TRUE, issues |-> << >>],
             [oid |-> 2, valid |-> FALSE, issues |-> <<issue>>]}
        \* review payloads: empty, with every review section, with an error
        reviews ==
            {NoReview,
             [NoReview EXCEPT !.physics = MkObj([ok |-> JBool(TRUE)]),
                              !.expert = MkObj([flow_regime |-> JStr("laminar")]),
                              !.auto_corrections =
                                    MkObj([applied |-> JArr(<<JStr("nz clamped")>>),
                                           rules |-> JArr(<<JStr("R1")>>)])],
             [NoReview EXCEPT !.reasoner_error = JStr("timeout")]}
        instances ==
            SomeIntents \cup
            {Doc(p, "oil", m, j) :
                p \in {Absent, JStr(ProfileOF), BogusProfile, JInt(1)},
                m \in {Absent, JStr("x"), BlockMesh("2D_extruded", 0), BlockMesh("4D", 3),
                       MkObj([mode |-> JInt(1), blockMesh |-> JNull])},
                j \in {Absent, JStr("x"), EmptyObj}}
        schemas ==
            {IntentSchema(ProfileOF), IntentSchema(ProfileMesh),
             SObject(<<"nz", "mode">>,
                     <<SProp("profile", SLeaf("string")),
                       SProp("job_meta", SLeaf("object"))>>)}
    IN  /\ phase = "args"
        /\ fn = "none"
        /\ t_in = Absent
        /\ mode_in = Absent
        /\ out = Absent
        /\ heap = << >>
        /\ BridgeIdle
        /\ PipeIdle
        /\ \/ o_in \in {[fn |-> "schema_validate", instance |-> i, schema |-> s] :
                            i \in instances, s \in schemas}
           \/ o_in \in {[fn |-> "normalize_job_id", raw |-> r, timestamp |-> ts,
                         random_tail |-> rt] :
                            r \in raws, ts \in Timestamps, rt \in RandomTails}
           \/ o_in \in {[fn |-> "build_multilayer_summary", schema_initial |-> si,
                         schema_final |-> sf, review |-> rv, final_intent |-> fi,
                         pipeline_status |-> st, storage_record |-> sr] :
                            si \in initials, sf \in finals, rv \in reviews,
                            fi \in {EmptyObj, Doc(JStr(ProfileOF), "oil", Absent, Absent),
                                    MkObj([materials |-> JStr("water")])},
                            st \in {"ok", "schema_failed", "schema_regression",
                                    "reasoner_failed"},
                            sr \in {JNull, MkObj([filename |-> JStr("intent.json")])}}
           \/ o_in \in {[fn |-> "strip_json_comments", raw |-> text] :
                            text \in Texts(MaxTextLen)}

\* the call of o_in returns r
Returns(name, r) ==
    /\ phase = "args"
    /\ o_in.fn = name
    /\ phase' = "called"
    /\ fn' = name
    /\ out' = r
    /\ UNCHANGED <<t_in, o_in, mode_in, heap>>
    /\ UNCHANGED <<pipeVars, bridgeVars>>

\* format_schema_errors(schema_validate(instance, schema)); out keeps the
\* sorted errors next to the formatted result
CallValidate ==
    /\ o_in.fn = "schema_validate"
    /\ LET errors == schema_validate(o_in.instance, o_in.schema)
       IN  Returns("schema_validate",
                   [errors |-> errors, result |-> format_schema_errors(errors)])

\* normalize_job_id(raw), the clock and uuid4 giving timestamp and random_tail
CallNormalizeJobId ==
    /\ o_in.fn = "normalize_job_id"
    /\ Returns("normalize_job_id",
               normalize_job_id(o_in.raw, o_in.timestamp, o_in.random_tail))

\* build_multilayer_summary(schema_initial, schema_final, review,
\* final_intent, pipeline_status, storage_record)
CallSummary ==
    /\ o_in.fn = "build_multilayer_summary"
    /\ Returns("build_multilayer_summary",
               build_multilayer_summary(o_in.schema_initial, o_in.schema_final, o_in.review,
                                        o_in.final_intent, o_in.pipeline_status,
                                        o_in.storage_record))

\* _strip_json_comments(raw)
CallStrip ==
    /\ o_in.fn = "strip_json_comments"
    /\ Returns("strip_json_comments", strip_json_comments(o_in.raw))

NextFun ==
    \/ CallValidate
    \/ CallNormalizeJobId
    \/ CallSummary
    \/ CallStrip

SpecFun == InitFun /\ [][NextFun]_vars

----------------------------------------------------------------------------
(* SpecConc: intent_save requests served at the same time.  The handler is *)
(* a plain function, so the framework runs each request on its own thread  *)
(* of the thread pool; a thread can be preempted between opening           *)
(* intent.json and the writes json.dump makes to it.  Here pc, req,        *)
(* response, h_final_intent and trail are per thread, trail[t] is what     *)
(* thread t has written so far, and a file of the storage is the sequence  *)
(* of pieces it holds.                                                     *)

\* the threads serving requests at the same time
Workers == 2

\* the pieces json.dump writes a document in
DocPieces == 2

InitConc ==
    \* the save requests of one profile, and the same with another fluid
    LET requests ==
            {r \in SaveRequests : r.profile_slug = JStr(SlugMesh)}
            \cup {[r EXCEPT !.intent = Doc(JStr(ProfileMesh), "water", Absent, Absent)] :
                    r \in {q \in SaveRequests : q.profile_slug = JStr(SlugMesh)}}
    IN
    /\ phase = "args"
    /\ fn = "none"
    /\ t_in = Absent /\ o_in = Absent /\ mode_in = Absent /\ out = Absent
    /\ heap = << >>
    /\ BridgeIdle
    /\ pc = [t \in 1..Workers |-> "received"]
    /\ req \in [1..Workers -> requests]
    /\ h_template_obj = Absent
    /\ h_collected = Absent
    /\ h_reasoner_raw = Absent
    /\ h_reviewed_intent = Absent
    /\ h_final_intent = [t \in 1..Workers |-> Absent]
    /\ h_defaults_intent = JNull
    /\ h_defaults_overview = JNull
    /\ h_schema_initial = NoResult
    /\ h_review_payload = NoReview
    /\ h_pipeline_status = "ok"
    /\ response = [t \in 1..Workers |-> Absent]
    /\ trail = [t \in 1..Workers |-> << >>]
    /\ storage = EmptyStorage
    /\ nreq = Workers

\* Thread t runs intent_save up to `with target.open("w")`: the intent is
\* prepared and validated, the job directory made and intent.json opened,
\* which creates it or truncates it.
ConcOpen(t, timestamp, random_tail) ==
    /\ pc[t] = "received"
    /\ UNCHANGED <<funVars, req, nreq, trail, h_template_obj, h_collected,
                   h_reasoner_raw, h_reviewed_intent, h_defaults_intent,
                   h_defaults_overview, h_schema_initial, h_review_payload,
                   h_pipeline_status>>
    /\ LET r == req[t]
           meta == ResolveMeta(r.profile_slug, r.intent)
           intent_obj == MergeJobMeta(ForceProfile(deep_copy_json(r.intent), meta), r.job_meta)
           validation == format_schema_errors(schema_validate(intent_obj, SchemaOf(meta)))
           saved == save_intent_with_job_directory(intent_obj, timestamp, random_tail)
       IN  IF ~IsObj(r.intent) \/ meta \in {NoMeta, MetaRaised} \/ ~validation.valid
           THEN /\ response' =
                    [response EXCEPT ![t] =
                        IF ~IsObj(r.intent) THEN HTTPError(400, "intent must be an object")
                        ELSE IF meta = MetaRaised THEN InternalError
                        ELSE IF meta = NoMeta THEN HTTPError(400, "unknown profile")
                        ELSE Response([code |-> 400, valid |-> JBool(FALSE),
                                       issues |-> validation.issues])]
                /\ pc' = [pc EXCEPT ![t] = "done"]
                /\ UNCHANGED <<storage, h_final_intent>>
           ELSE /\ h_final_intent' = [h_final_intent EXCEPT ![t] = saved.final_intent]
                /\ storage' =
                        [storage EXCEPT
                            !.dirs = @ \cup {saved.job_id},
                            !.files = (saved.relative_path :> << >>) @@ @]
                /\ pc' = [pc EXCEPT ![t] = "writing"]
                /\ UNCHANGED response

\* Thread t's json.dump writes its next piece at the offset of its own
\* file object; after the last piece the file is closed and the request
\* answered.
ConcWrite(t) ==
    /\ pc[t] = "writing"
    /\ UNCHANGED <<funVars, req, nreq, h_final_intent, h_template_obj, h_collected,
                   h_reasoner_raw, h_reviewed_intent, h_defaults_intent,
                   h_defaults_overview, h_schema_initial, h_review_payload,
                   h_pipeline_status>>
    /\ LET job_id == Get(Get(h_final_intent[t], "job_meta"), "job_id").s
           relative_path == job_id \o "/intent.json"
           k == Len(trail[t]) + 1
           piece == [doc |-> h_final_intent[t], part |-> k]
           hole == [doc |-> JNull, part |-> 0]
           content == storage.files[relative_path]
           written == [i \in 1..(IF Len(content) > k THEN Len(content) ELSE k) |->
                          IF i = k THEN piece
                          ELSE IF i <= Len(content) THEN content[i] ELSE hole]
       IN  /\ trail' = [trail EXCEPT ![t] = Append(@, piece)]
           /\ storage' =
                [storage EXCEPT
                    !.files = (relative_path :> written) @@ @,
                    !.writes = IF k = DocPieces THEN @ + 1 ELSE @]
           /\ IF k = DocPieces
              THEN /\ pc' = [pc EXCEPT ![t] = "done"]
                   /\ response' =
                        [response EXCEPT ![t] =
                            Response([ok |-> JBool(TRUE),
                                      job_id |-> JStr(job_id),
                                      relative_path |-> JStr(relative_path),
                                      storage_path |-> JStr("storage/" \o relative_path),
                                      intent |-> h_final_intent[t],
                                      profile_slug |-> req[t].profile_slug])]
              ELSE UNCHANGED <<pc, response>>

NextConc ==
    \/ \E t \in 1..Workers, timestamp \in Timestamps, random_tail \in RandomTails :
            ConcOpen(t, timestamp, random_tail)
    \/ \E t \in 1..Workers : ConcWrite(t)

SpecConc == InitConc /\ [][NextConc]_vars

----------------------------------------------------------------------------
(* Objects by reference.  A Python dict or list is an object of the        *)
(* process: a name or a dict entry holds a reference to it, and two         *)
(* references to one object see each other's writes.  heap[at] is the       *)
(* object at address at, its members being scalars or references.          *)

Ref(at) == [t |-> "ref", at |-> at]

\* isinstance(c, dict) for a member or argument c
IsDictAt(h, c) == c.t = "ref" /\ h[c.at].t = "obj"

\* the elements of a finite set, one after another
RECURSIVE InOrder(_)
InOrder(S) == IF S = {} THEN << >> ELSE LET x == CHOOSE y \in S : TRUE IN <<x>> \o InOrder(S \ {x})

\* json.dumps: the document that the reference stands for
RECURSIVE json_dumps(_, _)
json_dumps(h, c) ==
    IF c.t # "ref" THEN c
    ELSE IF h[c.at].t = "obj"
    THEN JObj([k \in DOMAIN h[c.at].f |-> json_dumps(h, h[c.at].f[k])])
    ELSE JArr([i \in DOMAIN h[c.at].a |-> json_dumps(h, h[c.at].a[i])])

\* json.loads: every dict and list of the document becomes a new object;
\* the store afterwards and the reference to the document
RECURSIVE json_loads(_, _)
json_loads(h, v) ==
    IF v.t = "obj"
    THEN LET keys == InOrder(DOMAIN v.f)
             RECURSIVE Members(_)
             Members(n) ==
                 IF n = 0 THEN [heap |-> h, f |-> << >>]
                 ELSE LET m == Members(n - 1)
                          r == json_loads(m.heap, v.f[keys[n]])
                      IN  [heap |-> r.heap,
                           f |-> [k \in (DOMAIN m.f) \cup {keys[n]} |->
                                    IF k = keys[n] THEN r.cell ELSE m.f[k]]]
             m == Members(Len(keys))
         IN  [heap |-> Append(m.heap, JObj(m.f)), cell |-> Ref(Len(m.heap) + 1)]
    ELSE IF v.t = "arr"
    THEN LET RECURSIVE Items(_)
             Items(n) ==
                 IF n = 0 THEN [heap |-> h, a |-> << >>]
                 ELSE LET m == Items(n - 1)
                          r == json_loads(m.heap, v.a[n])
                      IN  [heap |-> r.heap, a |-> Append(m.a, r.cell)]
             m == Items(Len(v.a))
         IN  [heap |-> Append(m.heap, JArr(m.a)), cell |-> Ref(Len(m.heap) + 1)]
    ELSE [heap |-> h, cell |-> v]

\* A merge that works on the template itself instead of a copy of it
merge_with_template_at_shared(h, template_obj, overrides) ==
    LET RECURSIVE Merge(_, _, _)
        Merge(hh, dst, src) ==
            LET keys == InOrder(DOMAIN hh[src].f)
                RECURSIVE After(_)
                After(n) ==
                    IF n = 0 THEN hh
                    ELSE LET s == After(n - 1)
                             key == keys[n]
                             value == s[src].f[key]
                         IN  IF IsDictAt(s, value) /\ key \in DOMAIN s[dst].f /\ IsDictAt(s, s[dst].f[key])
                             THEN Merge(s, s[dst].f[key].at, value.at)
                             ELSE [s EXCEPT ![dst] = Put(s[dst], key, value)]
            IN  After(Len(keys))
    IN  IF ~IsDictAt(h, overrides) THEN [heap |-> h, cell |-> template_obj]
        ELSE [heap |-> Merge(h, template_obj.at, overrides.at), cell |-> template_obj]

\* merge_with_template on objects: base is a new copy of the template,
\* _merge(dst, src) assigns or recurses key by key; an assigned value is the
\* very object the overrides hold
merge_with_template_at(h, template_obj, overrides) ==
    LET base == json_loads(h, json_dumps(h, template_obj))
        RECURSIVE Merge(_, _, _)
        Merge(hh, dst, src) ==
            LET keys == InOrder(DOMAIN hh[src].f)
                RECURSIVE After(_)
                After(n) ==
                    IF n = 0 THEN hh
                    ELSE LET s == After(n - 1)
                             key == keys[n]
                             value == s[src].f[key]
                         IN  IF IsDictAt(s, value) /\ key \in DOMAIN s[dst].f /\ IsDictAt(s, s[dst].f[key])
                             THEN Merge(s, s[dst].f[key].at, value.at)
                             ELSE [s EXCEPT ![dst] = Put(s[dst], key, value)]
            IN  After(Len(keys))
    IN  IF ~IsDictAt(h, overrides) THEN base
        ELSE [heap |-> Merge(base.heap, base.cell.at, overrides.at), cell |-> base.cell]

\* enforce_dimension_mode on objects: every setdefault and item assignment
\* goes through intent_obj and the dicts reached from it; the template is
\* only read with get.  The store after the call.
enforce_dimension_mode_at(h, intent_obj, dimension_mode, template_obj) ==
    LET after == enforce_dimension_mode(json_dumps(h, intent_obj), dimension_mode,
                                        json_dumps(h, template_obj))
        RECURSIVE Assign(_, _, _)
        Assign(hh, at, v) ==
            LET keys == InOrder(DOMAIN v.f)
                RECURSIVE After(_)
                After(n) ==
                    IF n = 0 THEN hh
                    ELSE LET s == After(n - 1)
                             key == keys[n]
                             present == key \in DOMAIN s[at].f
                         IN  IF present /\ json_dumps(s, s[at].f[key]) = v.f[key] THEN s
                             ELSE IF present /\ IsDictAt(s, s[at].f[key]) /\ IsObj(v.f[key])
                             THEN Assign(s, s[at].f[key].at, v.f[key])
                             ELSE LET r == json_loads(s, v.f[key])
                                  IN  [r.heap EXCEPT ![at] = Put(r.heap[at], key, r.cell)]
            IN  After(Len(keys))
    IN  Assign(h, intent_obj.at, after)

----------------------------------------------------------------------------
(* SpecAlias: a template and overrides are loaded as separate objects,     *)
(* merge_with_template is called, and the caller goes on to change the     *)
(* intent it got: by item assignment, deletion, clear, append, and by      *)
(* enforce_dimension_mode.                                                 *)

InitAlias ==
    LET geometry == JObj([height_m |-> JInt(2)])
        cells == JObj([nz |-> JInt(20)])
        templates ==
            {JObj([meshing |-> JObj([blockMesh |-> JObj([geometry |-> geometry, cells |-> cells])]),
                   tags |-> JArr(<<JInt(1)>>)]),
             JObj([meshing |-> JObj([blockMesh |-> JObj([cells |-> cells])])]),
             JObj([tags |-> JArr(<<JArr(<<JInt(1)>>)>>)])}
        overrides ==
            {JNull, EmptyObj,
             JObj([meshing |-> JObj([blockMesh |-> JObj([geometry |-> JObj([thickness_2d_m |-> JNull])])])]),
             JObj([meshing |-> JObj([blockMesh |-> JInt(1)])]),
             JObj([tags |-> JArr(<<JInt(2)>>), fluid |-> JObj([name |-> JStr("water")])])}
    IN  /\ phase = "args"
        /\ fn = "none"
        /\ \E tv \in templates, ov \in overrides :
              LET t == json_loads(<< >>, tv)
                  o == json_loads(t.heap, ov)
              IN  /\ heap = o.heap
                  /\ t_in = t.cell
                  /\ o_in = o.cell
        /\ mode_in \in {JNull, JStr("3D"), JStr("2D_extruded")}
        /\ out = Absent
        /\ BridgeIdle
        /\ PipeIdle

\* intent = merge_with_template(t_in, o_in)
CallMergeAt ==
    /\ phase = "args"
    /\ LET r == merge_with_template_at(heap, t_in, o_in)
       IN  /\ heap' = r.heap
           /\ out' = r.cell
    /\ phase' = "merged"
    /\ fn' = "merge_with_template"
    /\ UNCHANGED <<t_in, o_in, mode_in>>
    /\ UNCHANGED <<pipeVars, bridgeVars>>

\* The caller changes an object of the intent: d[key] = 9, del d[key],
\* d.clear(), l.append(9), l.clear().  Once before enforce_dimension_mode
\* and once after it.
MutateIntent(at, kind, key) ==
    LET
        \* the addresses of the objects reached from a reference
        RECURSIVE Reached(_, _)
        Reached(h, c) ==
            IF c.t # "ref" THEN {}
            ELSE {c.at} \cup (IF h[c.at].t = "obj"
                              THEN UNION {Reached(h, h[c.at].f[k]) : k \in DOMAIN h[c.at].f}
                              ELSE UNION {Reached(h, h[c.at].a[i]) : i \in DOMAIN h[c.at].a})
    IN
    /\ phase \in {"merged", "enforced"}
    /\ at \in Reached(heap, out)
    /\ LET obj == heap[at]
       IN  CASE kind = "setitem" ->
                  /\ obj.t = "obj"
                  /\ heap' = [heap EXCEPT ![at] = Put(obj, key, JInt(9))]
             [] kind = "delitem" ->
                  /\ obj.t = "obj"
                  /\ key \in DOMAIN obj.f
                  /\ heap' = [heap EXCEPT ![at] = JObj([k \in (DOMAIN obj.f) \ {key} |-> obj.f[k]])]
             [] kind = "clear" ->
                  /\ heap' = [heap EXCEPT ![at] = IF obj.t = "obj" THEN EmptyObj ELSE JArr(<< >>)]
             [] kind = "append" ->
                  /\ obj.t = "arr"
                  /\ heap' = [heap EXCEPT ![at] = JArr(Append(obj.a, JInt(9)))]
    /\ phase' = IF phase = "merged" THEN "changed" ELSE "done"
    /\ fn' = kind
    /\ UNCHANGED <<t_in, o_in, mode_in, out>>
    /\ UNCHANGED <<pipeVars, bridgeVars>>

\* enforce_dimension_mode(intent, mode_in, t_in)
CallEnforceAt ==
    /\ phase \in {"merged", "changed"}
    /\ heap' = enforce_dimension_mode_at(heap, out, mode_in, t_in)
    /\ phase' = "enforced"
    /\ fn' = "enforce_dimension_mode"
    /\ UNCHANGED <<t_in, o_in, mode_in, out>>
    /\ UNCHANGED <<pipeVars, bridgeVars>>

NextAlias ==
    LET
        MutationKinds == {"setitem", "delitem", "clear", "append"}
        MutationKeys == {"meshing", "blockMesh", "geometry", "cells", "nz", "tags", "note"}
    IN
    \/ CallMergeAt
    \/ \E at \in DOMAIN heap, kind \in MutationKinds, key \in MutationKeys : MutateIntent(at, kind, key)
    \/ CallEnforceAt

SpecAlias == InitAlias /\ [][NextAlias]_vars

----------------------------------------------------------------------------
(* The job bridge (src/ai-chat-frontend/bridge.py).  run() puts a job into *)
(* the table JOBS and starts a thread on _run_job; the thread starts the   *)
(* solver as a subprocess, waits for it and writes the outcome into the    *)
(* job's dict, one item assignment at a time; status() and download() run  *)
(* on other threads, between any two of these assignments, and only read.  *)

\* how many jobs the bridge accepts
MaxJobs == 2

\* POST /run.  The job id is uuid4().hex[:12], taken to be new: the jobs are
\* numbered in the order of their creation.  mesh: the upload's filename,
\* Absent without an upload.  Of the job's dict the keys that _run_job
\* writes are kept; requirement, outdir, logfile, mesh_filename and
\* created_at are written here once and only copied afterwards.
Run(requirement, mesh) ==
    LET requirement_text == IF requirement = JNull THEN "" ELSE strip(requirement.s, Whitespace)
        mesh_filename == IF mesh = Absent THEN JNull
                         ELSE IF mesh.s # "" THEN mesh ELSE JStr("uploaded.msh")
        name == IF mesh_filename = JNull THEN "" ELSE mesh_filename.s
        lower(c) == CASE c = "M" -> "m" [] c = "S" -> "s" [] c = "H" -> "h" [] OTHER -> c
        \* Path(mesh_filename).suffix.lower(), for a name with one dot at most:
        \* a name that begins with its dot has no suffix
        ext == IF Len(name) < 5 \/ SubSeq(name, Len(name) - 3, Len(name) - 3) # "." THEN ""
               ELSE "." \o lower(SubSeq(name, Len(name) - 2, Len(name) - 2))
                        \o lower(SubSeq(name, Len(name) - 1, Len(name) - 1))
                        \o lower(SubSeq(name, Len(name), Len(name)))
        job_id == Len(JOBS) + 1
    IN  /\ Len(JOBS) < MaxJobs
        /\ IF requirement_text = ""
           THEN /\ reply' = [op |-> "run", code |-> 400, detail |-> "Empty requirement"]
                /\ UNCHANGED <<JOBS, worker, proc>>
           ELSE IF mesh # Absent /\ ext # ".msh"
           THEN /\ reply' = [op |-> "run", code |-> 400, detail |-> "Only .msh mesh files are supported"]
                /\ UNCHANGED <<JOBS, worker, proc>>
           ELSE /\ JOBS' = Append(JOBS,
                        [state |-> "queued", zip |-> JNull, returncode |-> JNull,
                         started_at |-> JNull, finished_at |-> JNull, error |-> JNull,
                         pid |-> Absent])
                /\ worker' = Append(worker, [pc |-> "open_log", ret |-> JNull])
                /\ proc' = Append(proc, "none")
                /\ reply' = [op |-> "run", code |-> 200, job_id |-> job_id]
        /\ UNCHANGED <<phase, fn, t_in, o_in, mode_in, out, heap, pipeVars>>

\* _run_job up to the first assignment: open(logfile, "wb") lies outside
\* the try, so its failure ends the thread; a failure of Popen is caught
RunJobStart(j, outcome) ==
    /\ j \in DOMAIN worker
    /\ worker[j].pc = "open_log"
    /\ CASE outcome = "log_fails" ->
              /\ worker' = [worker EXCEPT ![j].pc = "dead"]
              /\ proc' = proc
         [] outcome = "popen_fails" ->
              /\ worker' = [worker EXCEPT ![j].pc = "except_state"]
              /\ proc' = proc
         [] outcome = "spawned" ->
              /\ worker' = [worker EXCEPT ![j].pc = "set_running"]
              /\ proc' = [proc EXCEPT ![j] = "alive"]
    /\ UNCHANGED <<JOBS, reply, phase, fn, t_in, o_in, mode_in, out, heap, pipeVars>>

\* the subprocess exits, with code 0 or with another code
ProcExits(j, code) ==
    /\ j \in DOMAIN proc
    /\ proc[j] = "alive"
    /\ proc' = [proc EXCEPT ![j] = IF code = 0 THEN "exit0" ELSE "exit1"]
    /\ UNCHANGED <<JOBS, worker, reply, phase, fn, t_in, o_in, mode_in, out, heap, pipeVars>>

\* ret = proc.wait() returns once the subprocess has exited
RunJobWait(j) ==
    /\ j \in DOMAIN worker
    /\ worker[j].pc = "wait"
    /\ proc[j] \in {"exit0", "exit1"}
    /\ worker' = [worker EXCEPT ![j] = [pc |-> "set_returncode",
                                        ret |-> JInt(IF proc[j] = "exit0" THEN 0 ELSE 1)]]
    /\ UNCHANGED <<JOBS, proc, reply, phase, fn, t_in, o_in, mode_in, out, heap, pipeVars>>

\* zip_dir(outdir, zip_path): it returns or raises
RunJobZip(j, done) ==
    /\ j \in DOMAIN worker
    /\ worker[j].pc = "zip_dir"
    /\ worker' = [worker EXCEPT ![j].pc = IF done THEN "set_zip" ELSE "except_state"]
    /\ UNCHANGED <<JOBS, proc, reply, phase, fn, t_in, o_in, mode_in, out, heap, pipeVars>>

\* A thread that reports the job finished before it stores the zip path
RunJobSet_state_first(j) ==
    LET ret == worker[j].ret
        Assignments(at) ==
            CASE at = "set_running" -> <<[state |-> "running", started_at |-> JStr("now"), pid |-> JInt(j)], "wait">>
              [] at = "set_returncode" -> <<[returncode |-> ret], IF ret = JInt(0) THEN "zip_dir" ELSE "failed_state">>
              [] at = "set_zip" -> <<[state |-> "finished"], "finished_state">>
              [] at = "finished_state" -> <<[zip |-> JStr("output/job.zip"), finished_at |-> JStr("now"), error |-> JNull], "end">>
              [] at = "failed_state" -> <<[state |-> "failed", finished_at |-> JStr("now"), error |-> JStr("Process exited with code")], "end">>
              [] at = "except_state" -> <<[state |-> "failed", error |-> JStr("str(e)"), finished_at |-> JStr("now")], "end">>
    IN  /\ j \in DOMAIN worker
        /\ worker[j].pc \notin {"open_log", "wait", "zip_dir", "end", "dead"}
        /\ LET a == Assignments(worker[j].pc)
           IN  /\ JOBS' = [JOBS EXCEPT ![j] = [k \in DOMAIN JOBS[j] |-> IF k \in DOMAIN a[1] THEN a[1][k] ELSE JOBS[j][k]]]
               /\ worker' = [worker EXCEPT ![j].pc = a[2]]
        /\ UNCHANGED <<proc, reply, phase, fn, t_in, o_in, mode_in, out, heap, pipeVars>>

\* The next item assignments JOBS[job_id][key] = value of the thread and
\* where it goes on, by its position.  state, returncode and zip are each
\* assigned in a step of their own, in the order of the code; the
\* assignments of started_at, pid, finished_at and error, which no
\* handler's decision reads, go with the assignment of state they follow.
RunJobSet(j) ==
    LET ret == worker[j].ret
        Assignments(at) ==
            CASE at = "set_running" -> <<[state |-> "running", started_at |-> JStr("now"), pid |-> JInt(j)], "wait">>
              [] at = "set_returncode" -> <<[returncode |-> ret], IF ret = JInt(0) THEN "zip_dir" ELSE "failed_state">>
              [] at = "set_zip" -> <<[zip |-> JStr("output/job.zip")], "finished_state">>
              [] at = "finished_state" -> <<[state |-> "finished", finished_at |-> JStr("now"), error |-> JNull], "end">>
              [] at = "failed_state" -> <<[state |-> "failed", finished_at |-> JStr("now"), error |-> JStr("Process exited with code")], "end">>
              [] at = "except_state" -> <<[state |-> "failed", error |-> JStr("str(e)"), finished_at |-> JStr("now")], "end">>
    IN  /\ j \in DOMAIN worker
        /\ worker[j].pc \notin {"open_log", "wait", "zip_dir", "end", "dead"}
        /\ LET a == Assignments(worker[j].pc)
           IN  /\ JOBS' = [JOBS EXCEPT ![j] = [k \in DOMAIN JOBS[j] |-> IF k \in DOMAIN a[1] THEN a[1][k] ELSE JOBS[j][k]]]
               /\ worker' = [worker EXCEPT ![j].pc = a[2]]
        /\ UNCHANGED <<proc, reply, phase, fn, t_in, o_in, mode_in, out, heap, pipeVars>>

\* GET /status/{job_id}: 404 for an unknown id; else the answer copies the
\* job's items.  The handler writes nothing into JOBS; of its answer the
\* state is kept.
Status(j) ==
    /\ reply' = IF j \in DOMAIN JOBS
                THEN [op |-> "status", code |-> 200, state |-> JOBS[j].state]
                ELSE [op |-> "status", code |-> 404, detail |-> "job not found"]
    /\ UNCHANGED <<JOBS, worker, proc, phase, fn, t_in, o_in, mode_in, out, heap, pipeVars>>

\* GET /download/{job_id}
Download(j) ==
    /\ reply' = IF j \in DOMAIN JOBS /\ JOBS[j].zip # JNull
                THEN [op |-> "download", code |-> 200, path |-> JOBS[j].zip]
                ELSE [op |-> "download", code |-> 404, detail |-> "no zip"]
    /\ UNCHANGED <<JOBS, worker, proc, phase, fn, t_in, o_in, mode_in, out, heap, pipeVars>>

NextBridge ==
    \/ \E requirement \in {JNull, JStr(" "), JStr("simulate")}, mesh \in {Absent, JStr(""), JStr("a.msh"), JStr("A.MSH"), JStr(".msh"), JStr("a.txt")} : Run(requirement, mesh)
    \/ \E j \in 1..MaxJobs, outcome \in {"log_fails", "popen_fails", "spawned"} : RunJobStart(j, outcome)
    \/ \E j \in 1..MaxJobs, code \in {0, 1} : ProcExits(j, code)
    \/ \E j \in 1..MaxJobs : RunJobWait(j)
    \/ \E j \in 1..MaxJobs, done \in BOOLEAN : RunJobZip(j, done)
    \/ \E j \in 1..MaxJobs : RunJobSet(j)
    \/ \E j \in 1..MaxJobs : Status(j)
    \/ \E j \in 1..MaxJobs : Download(j)

SpecBridge == Init /\ [][NextBridge]_vars

\* The threads of _run_job are scheduled by the operating system: a thread
\* that can go on does go on in the end, once proc.wait() has returned and
\* while zip_dir runs as well.  The clients and the subprocess are under no
\* such condition, nor is the start of the subprocess.
SpecBridgeLive ==
    /\ SpecBridge
    /\ \A j \in 1..MaxJobs :
          WF_vars(RunJobWait(j) \/ RunJobSet(j) \/ \E done \in BOOLEAN : RunJobZip(j, done))

----------------------------------------------------------------------------
(* Claims about merge_with_template (SpecMerge) *)

MergeCalled == phase = "called" /\ fn = "merge_with_template"

\* C6: for every template T, merge_with_template(T, {}) returns a document
\* equal to T.
C6_MergeIdentity == (MergeCalled /\ o_in = EmptyObj) => out = t_in

\* C6 witness: the merge of a template with a nested object and {} returned.
C6_Witness ==
    /\ MergeCalled
    /\ o_in = EmptyObj
    /\ \E k \in Keys(t_in) : IsObj(t_in.f[k]) /\ Keys(t_in.f[k]) # {}

\* The override as an object: a non-dict override overrides no key.
AsOverrides(O) == IF IsObj(O) THEN O ELSE EmptyObj

\* Every key of T that O does not have at that position is in R with T's
\* value, at the top level and inside every object T and O both hold.
RECURSIVE TemplateKeysSurvive(_, _, _)
TemplateKeysSurvive(T, O, R) ==
    \A k \in Keys(T) :
        IF ~Has(O, k)
        THEN IsObj(R) /\ Has(R, k) /\ R.f[k] = T.f[k]
        ELSE (IsObj(T.f[k]) /\ IsObj(O.f[k])) =>
                 /\ IsObj(R)
                 /\ Has(R, k)
                 /\ IsObj(R.f[k])
                 /\ TemplateKeysSurvive(T.f[k], O.f[k], R.f[k])

\* The same, and also inside a template object whose parent key O overrides
\* with a scalar or an array (no key of that object is in O at that position).
RECURSIVE TemplateKeysSurviveEverywhere(_, _, _)
TemplateKeysSurviveEverywhere(T, O, R) ==
    \A k \in Keys(T) :
        IF ~Has(O, k)
        THEN IsObj(R) /\ Has(R, k) /\ R.f[k] = T.f[k]
        ELSE IsObj(T.f[k]) =>
                 /\ IsObj(R)
                 /\ Has(R, k)
                 /\ TemplateKeysSurviveEverywhere(T.f[k], AsOverrides(O.f[k]), R.f[k])

\* C7 as claimed: every key present in T (at any nesting level) and absent
\* from O at that position is still present, with its template value, in the
\* merge, also under a template object that O overrides with a scalar or an
\* array.
C7_AsClaimed ==
    MergeCalled => TemplateKeysSurviveEverywhere(t_in, AsOverrides(o_in), out)

\* C7 as amended: every key present in T and absent from O at that position
\* is still present, with its template value, in the merge, at the top level
\* and inside every nested object that T and O both hold as objects.
C7_TemplateKeysSurvive ==
    MergeCalled => TemplateKeysSurvive(t_in, AsOverrides(o_in), out)

\* C7 witness: O overrides key "a" inside the object at "a", T alone has "b"
\* inside it, and the merge returned.
C7_Witness ==
    /\ MergeCalled
    /\ IsObj(o_in) /\ Has(o_in, "a") /\ IsObj(o_in.f["a"])
    /\ Has(t_in, "a") /\ IsObj(t_in.f["a"])
    /\ Has(t_in.f["a"], "b") /\ ~Has(o_in.f["a"], "b") /\ Has(o_in.f["a"], "a")
    /\ out.f["a"].f["b"] = t_in.f["a"].f["b"]

----------------------------------------------------------------------------
(* Claims about the dimension mode (SpecDim) *)

\* the value at a path of keys, Absent when a key is missing on the way
RECURSIVE PathGet(_, _)
PathGet(v, path) ==
    IF path = << >> THEN v
    ELSE IF IsObj(v) /\ Has(v, Head(path)) THEN PathGet(v.f[Head(path)], Tail(path))
    ELSE Absent

ThicknessPath == <<"meshing", "blockMesh", "geometry", "thickness_2d_m">>
NzPath == <<"meshing", "blockMesh", "cells", "nz">>

EnforceCalled == phase = "called" /\ fn = "enforce_dimension_mode"
ApplyCalled == phase = "called" /\ fn = "apply_dimension_mode_to_template"

\* the call left its argument as it was
DimUnchanged ==
    /\ EnforceCalled => out = o_in
    /\ ApplyCalled => out = t_in

\* C9 as claimed: when the requested mode is absent or is any value other
\* than "3D" or "2D_extruded", enforce_dimension_mode leaves the intent
\* unchanged and apply_dimension_mode_to_template returns a copy equal to
\* the template.
C9_AsClaimed ==
    ((EnforceCalled \/ ApplyCalled)
        /\ (mode_in = JNull \/ mode_in.s \notin VALID_DIMENSION_MODES))
    => DimUnchanged

\* C9 as amended: when the requested mode is absent or, with the whitespace
\* around it stripped, is any value other than "3D" or "2D_extruded",
\* enforce_dimension_mode leaves the intent unchanged and
\* apply_dimension_mode_to_template returns a copy equal to the template.
C9_UnrecognizedModeUntouched ==
    ((EnforceCalled \/ ApplyCalled)
        /\ (mode_in = JNull \/ strip(mode_in.s, Whitespace) \notin VALID_DIMENSION_MODES))
    => DimUnchanged

\* C9 witness: enforce_dimension_mode returned for the unrecognized mode
\* "2D" on an intent with a geometry and a template with one.
C9_Witness ==
    /\ EnforceCalled
    /\ mode_in = JStr("2D")
    /\ IsObj(PathGet(o_in, <<"meshing", "blockMesh", "geometry">>))
    /\ IsObj(PathGet(t_in, <<"meshing", "blockMesh", "geometry">>))
    /\ out = o_in

\* C10 as claimed: after enforce_dimension_mode with mode 2D_extruded, for
\* every intent and template: when thickness_2d_m and cells.nz were absent,
\* thickness_2d_m is a number and cells.nz an integer in [1,10]; an integer
\* nz is clamped into [1,10]; a non-integer nz is replaced by the template's
\* value.
C10_AsClaimed ==
    (EnforceCalled /\ mode_in = JStr("2D_extruded")) =>
        LET nz == PathGet(o_in, NzPath)
            nz_out == PathGet(out, NzPath)
        IN  /\ (PathGet(o_in, ThicknessPath) = Absent /\ nz = Absent) =>
                    /\ IsNumber(PathGet(out, ThicknessPath))
                    /\ nz_out.t = "int"
                    /\ nz_out.n \in NzMin..NzMax
            /\ nz.t = "int" =>
                    nz_out = JInt(Max2(NzMin, Min2(nz.n, NzMax)))
            /\ (nz # Absent /\ ~IsInt(nz)) =>
                    nz_out = PathGet(t_in, NzPath)

----------------------------------------------------------------------------
(* Claims about intent_fill, intent_fill_fast and intent_save (Spec) *)

\* the elements of a sequence
Range(q) == {q[i] : i \in DOMAIN q}

\* an intent_fill request has ended
FillDone == pc = "done" /\ req.op = "intent_fill"

\* the profile entry the request in progress resolved
ResolvedMeta ==
    IF req.op = "intent_save" THEN ResolveMeta(req.profile_slug, req.intent)
    ELSE RegistryGet(req.profile_slug.s)

\* the document conforms to the schema of the resolved profile
Conforms(doc) ==
    format_schema_errors(schema_validate(doc, SchemaOf(ResolvedMeta))).valid

\* the reviewer was called in this request
ReviewerCalled == h_reviewed_intent # Absent \/ "reasoner_review" \in Range(trail)

\* the collector answered with a non-empty missing_parameters list
CollectedMissing ==
    /\ req.client_intent = JNull
    /\ IsObj(h_collected)
    /\ IsArr(Get(h_collected, "missing_parameters"))
    /\ Len(Get(h_collected, "missing_parameters").a) > 0

\* C1: in intent_fill without a client intent, whenever the collector
\* response carries a non-empty missing_parameters list, the request ends
\* with pipeline_status needs_parameters and the reviewer is never called.
C1_AsClaimed ==
    (FillDone /\ CollectedMissing) =>
        /\ response.pipeline_status = JStr("needs_parameters")
        /\ ~ReviewerCalled

\* C2: whenever the initial schema validation reports at least one issue,
\* the request ends with pipeline_status schema_failed and the reviewer is
\* never called: no state with a failed initial validation awaits or has
\* had a reviewer call.
C2_SchemaFailedHalts ==
    (req # Absent /\ req.op = "intent_fill" /\ Len(h_schema_initial.issues) > 0) =>
        /\ pc = "done"
        /\ response.code = 200
        /\ response.pipeline_status = JStr("schema_failed")
        /\ ~ReviewerCalled
        /\ h_reasoner_raw = Absent

\* C2 witness: a collected intent failed the initial validation and the
\* request ended.
C2_Witness ==
    /\ FillDone
    /\ req.client_intent = JNull
    /\ IsObj(h_collected)
    /\ Len(h_schema_initial.issues) > 0
    /\ response.pipeline_status = JStr("schema_failed")

UpdatedReturned ==
    /\ IsObj(h_reasoner_raw)
    /\ IsObj(Get(h_reasoner_raw, "updated_intent"))

\* C4: whenever the reviewer returns an updated_intent that fails the final
\* validation, the request ends with pipeline_status schema_regression and
\* the returned intent is that updated intent with the profile forced.
C4_AsClaimed ==
    (/\ FillDone
     /\ UpdatedReturned
     /\ ~Conforms(ForceProfile(Get(h_reasoner_raw, "updated_intent"), ResolvedMeta))) =>
        /\ response.pipeline_status = JStr("schema_regression")
        /\ response.intent = ForceProfile(Get(h_reasoner_raw, "updated_intent"), ResolvedMeta)

\* the position of a stage in the trail (0 when it was not reached)
StageAt(stage) ==
    IF stage \in Range(trail)
    THEN CHOOSE i \in DOMAIN trail : trail[i] = stage
    ELSE 0

\* C5: no intent_fill reaches both schema_failed and schema_regression; once
\* schema_failed is reached neither the reviewer nor the final check is; a
\* final check only happens after a valid initial check followed by a
\* reviewer call that returned.
C5_FailureStatusesExclusive ==
    /\ ~("schema_failed" \in Range(trail) /\ "schema_regression" \in Range(trail))
    /\ "schema_failed" \in Range(trail) =>
          /\ ~ReviewerCalled
          /\ "schema_final_check" \notin Range(trail)
          /\ h_review_payload.schema_final = Absent
    /\ ("schema_final_check" \in Range(trail)
            \/ h_review_payload.schema_final # Absent) =>
          /\ h_schema_initial # NoResult
          /\ h_schema_initial.valid
          /\ Len(h_schema_initial.issues) = 0
          /\ h_reasoner_raw # Absent
          /\ h_reasoner_raw.t # "error"
          /\ 0 < StageAt("schema_initial_check")
          /\ StageAt("schema_initial_check") < StageAt("reasoner_review")
          /\ StageAt("reasoner_review") < StageAt("schema_final_check")

\* C5 witness: a request whose reviewed intent failed the final check.
C5_Witness ==
    /\ FillDone
    /\ response.code = 200
    /\ response.pipeline_status = JStr("schema_regression")
    /\ ~h_review_payload.schema_final.valid

\* the document carries the resolved profile's identifier
CarriesProfile(doc) ==
    IsObj(doc) /\ Get(doc, "profile") = JStr(ResolvedMeta.profile)

\* C8: every intent a handler returns (intent_fill in every status, its
\* default_intent included, intent_fill_fast, intent_save) carries the
\* registry's profile identifier of the resolved profile.
C8_ProfileForced ==
    (pc = "done" /\ response.code = 200) =>
        /\ response.intent # Absent => CarriesProfile(response.intent)
        /\ response.default_intent # Absent => CarriesProfile(response.default_intent)

\* C8 witness: the reviewer's updated intent named another profile, the
\* collector's default intent too, and the request answered with both.
C8_Witness ==
    /\ FillDone
    /\ response.code = 200
    /\ UpdatedReturned
    /\ Get(Get(h_reasoner_raw, "updated_intent"), "profile") = BogusProfile
    /\ response.default_intent # Absent
    /\ response.intent # Absent


----------------------------------------------------------------------------
(* Claims about the failure handling of enforce_dimension_mode (SpecDim)   *)

\* a step of the try block raised and the except clause discarded it
EnforceRaised ==
    /\ EnforceCalled
    /\ normalize_dimension_mode(mode_in) # JNull
    /\ enforce_mode_steps(o_in, normalize_dimension_mode(mode_in), t_in).raised

\* C11 as claimed: enforce_dimension_mode never raises for any intent and
\* template shape, and when an internal failure occurs it is a no-op: the
\* intent is left exactly as it was before the call.
C11_AsClaimed == EnforceRaised => out = o_in


----------------------------------------------------------------------------
(* Claims about schema validation (SpecFun)                                *)

ValidateCalled == phase = "called" /\ fn = "schema_validate"

\* the instance satisfies every keyword of the schema, and so does the
\* value of every property the schema describes
RECURSIVE ConformsTo(_, _)
ConformsTo(instance, schema) ==
    /\ IsType(instance, schema.type)
    /\ schema.enum # {} => instance \in schema.enum
    /\ (schema.minimum.has /\ instance.t \in {"int", "float"}) =>
            ~NumberBelow(instance, schema.minimum.v)
    /\ IsObj(instance) =>
        /\ \A i \in DOMAIN schema.required : Has(instance, schema.required[i])
        /\ \A i \in DOMAIN schema.properties :
                Has(instance, schema.properties[i].key) =>
                    ConformsTo(instance.f[schema.properties[i].key],
                               schema.properties[i].schema)

\* C12: for every instance and schema, the issue list of schema_validate
\* followed by format_schema_errors is ordered by path (no issue comes
\* before an issue of a smaller path), valid is true if and only if the
\* issue list is empty, and the list is empty if and only if the instance
\* conforms to the schema.
C12_IssuesOrderedAndExact ==
    ValidateCalled =>
        LET issues == out.result.issues
        IN  /\ Len(issues) = Len(out.errors)
            /\ \A i \in DOMAIN issues : issues[i].path = FormatPath(out.errors[i].path)
            /\ \A i, j \in DOMAIN issues :
                    i < j => ~PathLess(out.errors[j].path, out.errors[i].path)
            /\ out.result.valid <=> issues = << >>
            /\ issues = << >> <=> ConformsTo(o_in.instance, o_in.schema)

\* C12 witness: a validation reported several issues, and the validator
\* had yielded them in another order than the one reported.
C12_Witness ==
    /\ ValidateCalled
    /\ Len(out.result.issues) >= 3
    /\ ~out.result.valid
    /\ iter_errors(o_in.instance, o_in.schema, << >>) # out.errors


----------------------------------------------------------------------------
(* Claims about normalize_job_id (SpecFun)                                 *)

JobIdCalled == phase = "called" /\ fn = "normalize_job_id"

\* the characters of a string
Chars(str) == {SubSeq(str, i, i) : i \in 1..Len(str)}

\* str(raw or "")
RawText == IF Truthy(o_in.raw) THEN PyStr(o_in.raw) ELSE ""

\* C13: for every raw job id (absent, empty, blank, with unsafe characters,
\* longer than 120 characters), normalize_job_id returns a non-empty id of
\* at most 120 characters, every one of them in [0-9A-Za-z_-]; when the
\* input has no safe character the id is job-<timestamp>-<random suffix>;
\* and "My Job/1" gives "My-Job-1".
C13_JobIdSafe ==
    JobIdCalled =>
        /\ Len(out) \in 1..MaxJobIdLen
        /\ Chars(out) \subseteq SafeChars
        /\ Chars(RawText) \cap SafeChars = {} =>
                out = "job-" \o o_in.timestamp \o "-" \o o_in.random_tail
        /\ o_in.raw = JStr("My Job/1") => out = "My-Job-1"

\* C13 witness: an id of more than 120 characters with unsafe characters
\* came back cut to 120 safe characters.
C13_Witness ==
    /\ JobIdCalled
    /\ Len(RawText) > MaxJobIdLen
    /\ Chars(RawText) \ SafeChars # {}
    /\ Len(out) = MaxJobIdLen


----------------------------------------------------------------------------
(* Claims about the job store (Spec)                                       *)

\* this step is an intent_save request that stored its document
SaveStored ==
    /\ pc = "idle" /\ pc' = "done"
    /\ req'.op = "intent_save"
    /\ response'.ok = JBool(TRUE)

\* the documents of the storage st that lie in the directory id
DocsIn(st, id) == {path \in DOMAIN st.files : StartsWith(path, id \o "/")}

\* C14: a save whose normalized job id already has a stored document leaves
\* the job directories as they were and exactly one document in that job's
\* directory, holding this (the second) call's intent.
C14_SecondSaveReplaces ==
    [][(SaveStored /\ DocsIn(storage, response'.job_id.s) # {}) =>
            LET id == response'.job_id.s
                stored == storage'.files[id \o "/intent.json"]
            IN  /\ storage'.dirs = storage.dirs
                /\ DocsIn(storage', id) = {id \o "/intent.json"}
                /\ DOMAIN storage'.files = DOMAIN storage.files
                /\ stored = response'.intent
                /\ Get(stored, "materials") = Get(req'.intent, "materials")
                /\ Get(Get(stored, "job_meta"), "job_id") = JStr(id)]_vars

\* C14 witness: two documents were written, the second by the save that
\* just answered, and the store holds one directory with one document,
\* the one this save returned.
C14_Witness ==
    /\ pc = "done"
    /\ req.op = "intent_save"
    /\ response.ok = JBool(TRUE)
    /\ storage.writes = 2
    /\ Cardinality(storage.dirs) = 1
    /\ DOMAIN storage.files = {response.job_id.s \o "/intent.json"}
    /\ storage.files[response.job_id.s \o "/intent.json"] = response.intent


\* the intent intent_save validates: the request's intent with the resolved
\* profile forced and the request's job_meta merged in
SavePrepared(r) ==
    MergeJobMeta(ForceProfile(deep_copy_json(r.intent), ResolveMeta(r.profile_slug, r.intent)),
                 r.job_meta)

\* this step is an intent_save request
SaveStep == pc = "idle" /\ pc' = "done" /\ req'.op = "intent_save"

\* C15: intent_save validates before it persists: a request whose intent
\* is schema-invalid is answered with the issue list and valid = false and
\* leaves the storage unchanged, and a step that changes the storage is a
\* save whose intent satisfies the schema.
C15_ValidatedBeforeStored ==
    [][SaveStep =>
        /\ response'.valid = JBool(FALSE) =>
                /\ response'.code = 400
                /\ response'.issues # << >>
                /\ storage' = storage
        /\ (IsObj(req'.intent)
              /\ ResolveMeta(req'.profile_slug, req'.intent) \notin {NoMeta, MetaRaised}
              /\ ~ConformsTo(SavePrepared(req'),
                             SchemaOf(ResolveMeta(req'.profile_slug, req'.intent)))) =>
                /\ response'.valid = JBool(FALSE)
                /\ storage' = storage
        /\ storage' # storage =>
                /\ IsObj(req'.intent)
                /\ ConformsTo(SavePrepared(req'),
                              SchemaOf(ResolveMeta(req'.profile_slug, req'.intent)))]_vars

\* C15 witness: a save of a schema-invalid intent was answered with
\* valid = false and its issues while an earlier save's document is in the
\* storage, untouched.
C15_Witness ==
    /\ pc = "done"
    /\ req.op = "intent_save"
    /\ response.valid = JBool(FALSE)
    /\ response.issues # << >>
    /\ storage.writes = 1
    /\ Cardinality(DOMAIN storage.files) = 1


----------------------------------------------------------------------------
(* Claims about the collector's missing-parameter list (Spec)              *)

\* C16 as claimed: normalize_missing_parameters maps every entry of the
\* collector's missing_parameters list, a string or an object, to one
\* canonical record: the output has one record per input entry, so a
\* non-empty input list never normalizes to an empty list.
C16_AsClaimed ==
    (req # Absent /\ req.op = "intent_fill" /\ IsObj(h_collected)
        /\ IsArr(Get(h_collected, "missing_parameters"))) =>
        LET items == Get(h_collected, "missing_parameters")
            normalized == normalize_missing_parameters(items)
        IN  /\ Len(normalized) = Len(items.a)
            /\ items.a # << >> => normalized # << >>


----------------------------------------------------------------------------
(* Claims about build_multilayer_summary (SpecFun)                         *)

SummaryCalled == phase = "called" /\ fn = "build_multilayer_summary"

\* the lines of the schema-issue report: the header, the failure line, at
\* most four issues, the hint to fix the intent
IssueReport(result) ==
    <<"header", "schema_failed">>
        \o [i \in 1..(IF Len(result.issues) < 4 THEN Len(result.issues) ELSE 4) |->
                "schema_issue"]
        \o <<"schema_fix_hint">>

\* C17: when schema_initial is invalid, build_multilayer_summary emits only
\* the schema-issue report, for every review payload, final intent,
\* pipeline status and storage record: no physics, expert, auto-correction,
\* storage or intent-summary line, and no failure while rendering.
C17_InvalidInitialReportsIssuesOnly ==
    (SummaryCalled /\ ~o_in.schema_initial.valid) =>
        out = IssueReport(o_in.schema_initial)

\* C17 witness: the summary of an invalid initial result with five issues
\* was built while the review payload held physics, expert and
\* auto-correction sections, a storage record was given and the intent's
\* own summary would have raised.
C17_Witness ==
    /\ SummaryCalled
    /\ ~o_in.schema_initial.valid
    /\ Len(o_in.schema_initial.issues) = 5
    /\ IsObj(o_in.review.physics) /\ IsObj(o_in.review.expert)
    /\ IsObj(o_in.review.auto_corrections)
    /\ IsObj(o_in.storage_record)
    /\ summarize_intent(o_in.final_intent) = Raised
    /\ Len(out) = 7


----------------------------------------------------------------------------
(* Claims about failures of the generation calls (Spec)                    *)

\* this step ends the collector call with an exception
CollectorFailure == pc = "collecting" /\ pc' = "done" /\ h_collected' = Absent

\* this step ends the reviewer call with an exception
ReviewerFailure == pc = "reviewing" /\ pc' = "done" /\ h_reasoner_raw'.t = "error"

----------------------------------------------------------------------------
(* Claims about the layout of the storage (Spec)                           *)

\* id is its own normalization: non-empty, at most 120 characters, every
\* one of them safe
IsNormalizedJobId(id) ==
    /\ Len(id) \in 1..MaxJobIdLen
    /\ Chars(id) \subseteq SafeChars

\* C19 as claimed: after any sequence of intent_save and intent_apply
\* requests, every stored document is <job id>/intent.json for a directory
\* named by a normalized job id directly under the storage root, every such
\* directory holds exactly one document, and no document lies in the
\* storage root itself.
C19_AsClaimed ==
    /\ \A path \in DOMAIN storage.files :
            \E id \in storage.dirs : IsNormalizedJobId(id) /\ path = id \o "/intent.json"
    /\ \A id \in storage.dirs : Cardinality(DocsIn(storage, id)) = 1


----------------------------------------------------------------------------
(* Claims about requests served at the same time (SpecConc)                *)

\* the document thread t has open for writing
WritingTo(t) == Get(Get(h_final_intent[t], "job_meta"), "job_id").s \o "/intent.json"

\* C20 as claimed: concurrent requests need no lock: no two requests that
\* execute at the same time write the same stored document; the storage
\* writes of distinct requests go to distinct job directories.
C20_AsClaimed ==
    \A t1, t2 \in 1..Workers :
        (t1 # t2 /\ pc[t1] = "writing" /\ pc[t2] = "writing") =>
            WritingTo(t1) # WritingTo(t2)


----------------------------------------------------------------------------
(* Claims about _strip_json_comments (SpecFun)                             *)

StripCalled == phase = "called" /\ fn = "strip_json_comments"

\* The text without its comments, read one character at a time: outside
\* strings and comments (mode "code") a character of delims opens a string
\* literal that its unescaped twin closes, "//" opens a comment that the
\* line break ends (the break stays) and "/*" one that "*/" ends; a "/"
\* that opens no comment stays.  Only comment characters are left out.
RECURSIVE WithoutComments(_, _, _, _)
WithoutComments(text, i, st, delims) ==
    LET c == SubSeq(text, i, i)
        Code == [m |-> "code", d |-> "", esc |-> FALSE]
        Rest(st2) == WithoutComments(text, i + 1, st2, delims)
    IN  IF i > Len(text) THEN (IF st.m = "slash" THEN "/" ELSE "")
        ELSE CASE st.m = "str" ->
                    c \o Rest(IF st.esc THEN [st EXCEPT !.esc = FALSE]
                              ELSE IF c = "\\" THEN [st EXCEPT !.esc = TRUE]
                              ELSE IF c = st.d THEN Code ELSE st)
               [] st.m = "line" ->
                    IF c \in {"\r", "\n"} THEN c \o Rest(Code) ELSE Rest(st)
               [] st.m = "block" ->
                    Rest(IF c = "*" THEN [st EXCEPT !.m = "star"] ELSE st)
               [] st.m = "star" ->
                    Rest(IF c = "/" THEN Code
                         ELSE IF c = "*" THEN st ELSE [st EXCEPT !.m = "block"])
               [] st.m = "slash" ->
                    IF c = "/" THEN Rest([st EXCEPT !.m = "line"])
                    ELSE IF c = "*" THEN Rest([st EXCEPT !.m = "block"])
                    ELSE "/" \o WithoutComments(text, i, Code, delims)
               [] OTHER ->
                    IF c \in delims THEN c \o Rest([m |-> "str", d |-> c, esc |-> FALSE])
                    ELSE IF c = "/" THEN Rest([st EXCEPT !.m = "slash"])
                    ELSE c \o Rest(Code)

Stripped(text, delims) ==
    WithoutComments(text, 1, [m |-> "code", d |-> "", esc |-> FALSE], delims)

\* C21 as claimed: _strip_json_comments removes every // and /* */ comment
\* that starts outside a double-quoted string literal and changes nothing
\* else; the characters of a double-quoted string literal are kept, and a
\* text without a comment outside such strings is returned unchanged.
C21_AsClaimed == StripCalled => out = Stripped(o_in.raw, {"\""})

\* C21 as amended: the same, a string literal being delimited by double
\* quotes or by single quotes: comment marks between single quotes are kept
\* too, and a double quote between single quotes opens no literal.
C21_CommentsStripped ==
    StripCalled =>
        /\ out = Stripped(o_in.raw, {"\"", "'"})
        /\ Len(out) <= Len(o_in.raw)
        /\ Stripped(o_in.raw, {"\"", "'"}) = o_in.raw => out = o_in.raw

\* C21 witness: the text "/"// came back as "/": the comment after the
\* string literal is gone, the slash inside it is kept.
C21_Witness ==
    /\ StripCalled
    /\ o_in.raw = "\"/\"//"
    /\ out = "\"/\""

----------------------------------------------------------------------------
(* intent_fill: the status ok                                              *)

\* an intent_fill request has been answered with pipeline_status ok
FillOk == FillDone /\ response.code = 200 /\ response.pipeline_status = JStr("ok")

\* the reviewer call of this request returned a value
ReviewerReturned == h_reasoner_raw # Absent /\ h_reasoner_raw.t # "error"

\* C22: intent_fill answers with pipeline_status ok only when the initial
\* validation passed, the reviewer call returned without error and the
\* final validation of the returned intent reported no issue; the intent
\* returned with ok conforms to the schema of the profile, and when the
\* reviewer response carries no updated_intent object the returned intent
\* is the intent that was handed to the reviewer.
C22_OkMeansValidated ==
    FillOk =>
        /\ h_schema_initial.valid /\ h_schema_initial.issues = << >>
        /\ ReviewerReturned
        /\ h_review_payload.schema_final.valid
        /\ h_review_payload.schema_final.issues = << >>
        /\ schema_validate(response.intent, SchemaOf(ResolvedMeta)) = << >>
        /\ ConformsTo(response.intent, SchemaOf(ResolvedMeta))
        /\ ~UpdatedReturned => response.intent = h_reviewed_intent

\* an ok answer after a reviewer response without updated_intent
C22_Witness ==
    /\ FillOk
    /\ ReviewerReturned
    /\ ~UpdatedReturned
    /\ response.intent = h_reviewed_intent

----------------------------------------------------------------------------
(* intent_fill: the order of the two generation calls                      *)

\* how many times the stage was entered in this request
TimesEntered(stage) == Cardinality({i \in DOMAIN trail : trail[i] = stage})

\* the first position of the stage in the trail (0 when never entered)
EnteredAt(stage) ==
    IF stage \in Range(trail) THEN CHOOSE i \in DOMAIN trail : trail[i] = stage /\ \A j \in 1..(i - 1) : trail[j] # stage
    ELSE 0

\* C23: within one intent_fill request the collector is called at most
\* once and the reviewer at most once; while the collector call is pending
\* no reviewer call has started, a reviewer call that follows a collector
\* call starts after the collector returned its value, and the intent
\* handed to the reviewer passed the initial validation.
C23_CallsSequential ==
    (req # Absent /\ req.op = "intent_fill") =>
        /\ TimesEntered("collecting") <= 1
        /\ TimesEntered("reasoner_review") <= 1
        /\ pc = "collecting" => (~ReviewerCalled /\ h_collected = Absent)
        /\ pc = "reviewing" => (ReviewerCalled /\ h_reasoner_raw = Absent)
        /\ (ReviewerCalled /\ TimesEntered("collecting") = 1) =>
                /\ h_collected # Absent
                /\ EnteredAt("collecting") < EnteredAt("reasoner_review")
        /\ ReviewerCalled =>
                /\ h_schema_initial.valid
                /\ h_reviewed_intent # Absent
                /\ ConformsTo(h_reviewed_intent, SchemaOf(ResolvedMeta))

\* the reviewer call is pending after the collector returned
C23_Witness ==
    /\ req # Absent /\ req.op = "intent_fill"
    /\ pc = "reviewing"
    /\ TimesEntered("collecting") = 1
    /\ h_collected # Absent
    /\ ConformsTo(h_reviewed_intent, SchemaOf(ResolvedMeta))

----------------------------------------------------------------------------
(* The template object is never written (SpecAlias)                        *)

\* C24: merge_with_template and enforce_dimension_mode never modify the
\* template object they are given: no step (the merge, a later change of
\* the returned intent by the caller, enforce_dimension_mode on it) changes
\* the document the template reference stands for.
C24_TemplateUntouched == [][json_dumps(heap', t_in') = json_dumps(heap, t_in)]_vars

\* the merged intent was changed, enforce_dimension_mode ran on it and it
\* was changed again: it now differs from the template
C24_Witness ==
    /\ phase = "done"
    /\ IsDictAt(heap, t_in)
    /\ IsDictAt(heap, out)
    /\ out # t_in
    /\ json_dumps(heap, out) # json_dumps(heap, t_in)

----------------------------------------------------------------------------
(* merge_with_template against the reference merge (SpecMerge)             *)

\* R is the reference merge of the objects T and O: R has the keys of both;
\* at a key of O where O's and T's values are both objects R holds their
\* reference merge, at any other key of O it holds O's value as a whole;
\* at a key of T alone it holds T's value.
RECURSIVE IsReferenceMerge(_, _, _)
IsReferenceMerge(R, T, O) ==
    /\ IsObj(R)
    /\ Keys(R) = Keys(T) \cup Keys(O)
    /\ \A k \in Keys(O) :
          IF IsObj(O.f[k]) /\ Has(T, k) /\ IsObj(T.f[k])
          THEN IsReferenceMerge(R.f[k], T.f[k], O.f[k])
          ELSE R.f[k] = O.f[k]
    /\ \A k \in Keys(T) \ Keys(O) : R.f[k] = T.f[k]

\* C25: merge_with_template(T, O) is the reference merge of T and O when O
\* is an object, and equals T when O is no object.
C25_ReferenceMerge ==
    MergeCalled =>
        IF IsObj(o_in) THEN IsReferenceMerge(out, t_in, o_in) ELSE out = t_in

\* a merge that recursed at one key, replaced an array by another array at
\* a second key and kept nothing else
C25_Witness ==
    /\ MergeCalled
    /\ IsObj(o_in)
    /\ \E k \in Keys(o_in) : Has(t_in, k) /\ IsObj(t_in.f[k]) /\ IsObj(o_in.f[k]) /\ Keys(o_in.f[k]) # Keys(t_in.f[k])
    /\ \E k \in Keys(o_in) : Has(t_in, k) /\ IsArr(t_in.f[k]) /\ IsArr(o_in.f[k]) /\ o_in.f[k] # t_in.f[k] /\ out.f[k] = o_in.f[k]

----------------------------------------------------------------------------
(* The final-schema line of the summary (Spec)                             *)

\* the summary of the response holds a line on the final schema result
FinalSchemaLine(summary) ==
    \E i \in DOMAIN summary : summary[i] \in {"final_passed", "final_failed", "regression_note"}

\* C26 as claimed: when schema_initial is valid, the summary of an
\* intent_fill response holds a final-schema line only if the final schema
\* result differs from the initial one in validity or issues; in an ok run,
\* where both results are valid without issues, it holds none.
C26_AsClaimed ==
    (FillDone /\ response.code = 200 /\ h_schema_initial.valid
        /\ h_review_payload.schema_final # Absent) =>
        (FinalSchemaLine(response.human_summary) =>
            \/ h_review_payload.schema_final.valid # h_schema_initial.valid
            \/ h_review_payload.schema_final.issues # h_schema_initial.issues)

----------------------------------------------------------------------------
(* The ends of a job id and saving again (SpecFun)                         *)

\* C27 as claimed: for every raw input the id normalize_job_id returns
\* neither starts nor ends with "-", also when it was cut to the length
\* bound.
C27_AsClaimed ==
    JobIdCalled =>
        /\ SubSeq(out, 1, 1) # "-"
        /\ SubSeq(out, Len(out), Len(out)) # "-"

\* C28 as claimed: normalize_job_id returns its own outputs unchanged,
\* whatever the clock and the random tail, so saving again the intent a
\* save returned gives the same job id and the same document path.
C28_AsClaimed ==
    JobIdCalled =>
        /\ \A timestamp \in Timestamps, random_tail \in RandomTails :
                normalize_job_id(JStr(out), timestamp, random_tail) = out
        /\ LET intent == JObj([job_meta |-> JObj([job_id |-> o_in.raw])])
               saved == save_intent_with_job_directory(intent, o_in.timestamp, o_in.random_tail)
           IN  \A timestamp \in Timestamps, random_tail \in RandomTails :
                  LET again == save_intent_with_job_directory(saved.final_intent, timestamp, random_tail)
                  IN  /\ saved.job_id = out
                      /\ again.job_id = saved.job_id
                      /\ again.relative_path = saved.relative_path

----------------------------------------------------------------------------
(* The document intent_save validates and the document it writes (Spec)    *)

\* C29 as claimed: the document intent_save writes to the storage and
\* returns is the document it validated: nothing in it is added, replaced
\* or removed between the validation and the write.
C29_AsClaimed ==
    [][SaveStored =>
        /\ response'.intent = SavePrepared(req')
        /\ storage'.files[response'.relative_path.s] = SavePrepared(req')]_vars

----------------------------------------------------------------------------
(* Claims about the job bridge (SpecBridgeLive) *)

\* the moves of a job's state that the thread of _run_job may make
JobStateMoves ==
    {<<"queued", "running">>, <<"queued", "failed">>,
     <<"running", "finished">>, <<"running", "failed">>}

\* what holds of every job in the table
JobsConsistent ==
    /\ \A j \in DOMAIN JOBS :
          /\ JOBS[j].state \in {"queued", "running", "finished", "failed"}
          /\ JOBS[j].state = "finished" => JOBS[j].returncode = JInt(0) /\ JOBS[j].zip # JNull
          /\ JOBS[j].state = "failed" => JOBS[j].zip = JNull

\* one step of the bridge: no job leaves the table, every change of a state
\* is one of the moves, and a job with a zip path does not fail
JobsStep ==
    /\ DOMAIN JOBS \subseteq DOMAIN JOBS'
    /\ \A j \in DOMAIN JOBS :
          /\ JOBS'[j].state # JOBS[j].state => <<JOBS[j].state, JOBS'[j].state>> \in JobStateMoves
          /\ JOBS[j].zip # JNull => JOBS'[j].zip = JOBS[j].zip /\ JOBS'[j].state # "failed"

\* C30: with the jobs' threads and the status and download requests
\* interleaved, a job's state only moves queued -> running -> finished or
\* failed, or queued -> failed; finished and failed are never left; a
\* finished job has returncode 0 and a zip path; a job that fails never has
\* a zip path; and a job whose subprocess has exited reaches finished or
\* failed.
C30_JobLifecycle ==
    /\ []JobsConsistent
    /\ [][JobsStep]_vars
    /\ \A j \in 1..MaxJobs :
          (j \in DOMAIN proc /\ proc[j] \in {"exit0", "exit1"})
              ~> (j \in DOMAIN JOBS /\ JOBS[j].state \in {"finished", "failed"})

\* one job is finished with its zip path, another has failed after its
\* subprocess exited with code 1, and the last answer of status() showed a
\* job running
C30_Witness ==
    /\ \E j \in DOMAIN JOBS :
          /\ JOBS[j].state = "finished"
          /\ JOBS[j].zip # JNull
          /\ proc[j] = "exit0"
    /\ \E j \in DOMAIN JOBS :
          /\ JOBS[j].state = "failed"
          /\ JOBS[j].returncode = JInt(1)
          /\ proc[j] = "exit1"
    /\ reply # Absent /\ reply.op = "status" /\ reply.code = 200
    /\ reply.state = "running"

====
